---- MODULE Spec2Model ----
(***************************************************************************)
(* Compute-pipeline construction and execution of                          *)
(* transformer_engine/pytorch/sequential.                                  *)
(*                                                                         *)
(*   SpecSplit : split_into_self_contained and the forward/backward tuples *)
(*               of ComputePipeline.__init__ (compute_pipeline.py).        *)
(*   SpecTrain : training calls of apply() and the backward passes of      *)
(*               ComputePipelineFunction, with the BackwardComm relay      *)
(*               slots (compute_pipeline_function.py).                     *)
(*   SpecUnit  : one self-contained unit behind ComputePipelineFunction:   *)
(*               the inputs its forward receives, SelfContainedOp.backward *)
(*               and the gradients its backward returns.                   *)
(*   SpecHandoff : the forward loop of apply: tensors and their fp8        *)
(*               metadata across the boundary between units.               *)
(*   SpecCtx   : the contexts SelfContainedOp.forward saves and            *)
(*               SelfContainedOp.backward hands back.                      *)
(*   SpecSquish : _squish and _unsquish on one tensor.                     *)
(*   SpecOps   : Op.training and Op.inference of sequential_new along a    *)
(*               chain of operations (common_back/ops.py).                 *)
(*   SpecBuild : ComputePipeline.__init__, step by step, on a heap of      *)
(*               operation objects.                                        *)
(*   SpecSetup : the setup calls and the properties of one Op of           *)
(*               sequential_new (common_back/ops.py).                      *)
(*   SpecFuse  : get_fused_op_list applied to a list and to its own result.*)
(*   SpecIter  : a Residual run for several training iterations.           *)
(*   SpecPair  : the markers of a Residual through copy.deepcopy.          *)
(*   SpecGrad  : one training call, forward then backward: the squish      *)
(*               flags and the gradients between adjacent units.           *)
(*   SpecShard : set_input_shape called repeatedly on a Gemm or a Bias,    *)
(*               and the variants of Gemm.describe_parallellism.           *)
(*   SpecThreads : two training calls of apply() on two threads, sharing   *)
(*               the module-level _args.                                   *)
(***************************************************************************)
EXTENDS Naturals, Integers, Sequences, FiniteSets, TLC

(***************************************************************************)
(* Bounds.                                                                 *)
(***************************************************************************)
\* number of elementary operations of an operation list
NOps == 4
\* number of top-level training calls
NCalls == 2
\* largest number of self-contained units of a pipeline
MaxUnits == 3
\* largest number of parameter tensors of one elementary operation
MaxParams == 2
\* largest number of elements of a tensor
MaxNumel == 2
\* number of operations name_ops names
NNamed == 11
\* largest number of successive _squish / _unsquish calls on one tensor
MaxSquishCalls == 2
\* largest number of operations of a chain, the Residual markers apart
MaxInner == 2
\* largest number of operations of a list a pipeline is constructed from
MaxListed == 2
\* largest feature count an operation is created with
MaxFeatures == 3

\* the largest feature count of an operation whose set_input_shape is
\* called repeatedly
MaxSplit == 4
\* largest size of a distributed group
MaxWorkers == 2
\* largest number of operations of a list that is fused
MaxFused == 4
\* largest number of patterns of a mode, and of classes of a pattern
MaxPatterns == 2
MaxPatternLen == 3
\* number of training iterations a chain is run for
MaxIterations == 2

VARIABLES
    \* ---- split_into_self_contained / ComputePipeline.__init__ ----
    fwds0,              \* the fused forward list as passed in
    bwds0,              \* the fused backward list as passed in
    fwds,               \* work queue: remaining forward items
    bwds,               \* work queue: remaining backward items
    functions,          \* list of SelfContainedOp built so far
    used_forwards,      \* forward items of the unit under construction
    used_backwards,     \* backward items of the unit under construction
    unmatched_fwd_ops,  \* elementary ops seen forward, not yet backward
    unmatched_bwd_ops,  \* elementary ops seen backward, not yet forward
    forward,            \* ComputePipeline.forward
    backward,           \* ComputePipeline.backward
    pc,                 \* position in split_into_self_contained
    \* ---- apply / ComputePipelineFunction ----
    calls,              \* per training call: its position, contexts, log
    heap,               \* BackwardComm instances: their own attributes
    classGrad,          \* the class attribute BackwardComm.nvte_grad_output
    _args,              \* the module global _args
    \* ---- one unit: SelfContainedOp / ComputePipelineFunction ----
    unit,               \* the SelfContainedOp (contained_op, ctx.nvte_op)
    params,             \* params[k]: number of parameter tensors of op k
    inputs,             \* what forward received after ctx
    todo_bwds,          \* SelfContainedOp.backward: items not yet run
    dy,                 \* SelfContainedOp.backward: the gradient threaded
    full_grads,         \* SelfContainedOp.backward: full_grads
    outputs,            \* what ComputePipelineFunction.backward returned
    upc,                \* position in the unit's training call
    \* ---- apply -> ComputePipelineFunction.forward: the unit boundary ----
    apply_x,            \* apply: the exposed tensor x
    nvte_x,             \* apply: nvte_x
    squished_now,       \* _args.is_exposed_x_squished_now
    tensor_mess,        \* forward: the arguments after exposed_x
    given,              \* the tensor given to the latest op.forward
    nvte_y,             \* the tensor the latest op.forward returned
    returned_prev,      \* the tensor the op.forward before it returned
    exposed_y,          \* forward: exposed_y
    fctx,               \* the squish flags forward saved on ctx
    result,             \* what ComputePipelineFunction.forward returned
    n_units,                 \* number of units of the pipeline
    loop_i,                 \* apply: the loop index i
    hpc,                \* position in apply and forward
    \* ---- SelfContainedOp.forward / backward: the contexts ----
    ctx_unit,           \* the SelfContainedOp whose contexts are followed
    ctx_keys,           \* the keys every op.forward saves under
    full_ctx,           \* SelfContainedOp.forward: full_ctx
    ctxs,               \* SelfContainedOp.backward: ctxs
    ctx_pc,             \* position in the unit: forward, backward
    \* ---- _squish / _unsquish on one tensor ----
    sq_orig,            \* the tensor before any call
    sq_t,               \* the tensor t that _squish and _unsquish rebind
    sq_calls,           \* the calls made on t, in order
    sq_error,           \* the exception the last call raised
    \* ---- Op.training / Op.inference: a chain of operations ----
    pipeline,           \* the operations, in the order they are chained
    memory,             \* per run: the value every tensor holds
    gens,               \* gens[k]: the generator op k.training(x) returned
    infs,               \* infs[k]: the call op k.inference(x)
    prims,              \* the calls of f.* primitives made so far
    threaded,           \* the tensor the loop threads: x, then grad
    op_i,               \* index of the operation the loop is at
    ppc,                \* position: inference, forward, backward, done
    \* ---- ComputePipeline.__init__: the types of the operations ----
    b_ops,              \* the list of operations the caller passes
    b_env,              \* env: fp8_enabled, world_size
    b_self,             \* the ComputePipeline under construction
    b_heap,             \* the operation objects, by address
    b_local,            \* __init__: ops once copied, the fused lists
    b_log,              \* the calls __init__ has made, in order
    bpc,                \* position in ComputePipeline.__init__
    \* ---- Op of sequential_new: the setup calls and the properties ----
    s_op,               \* the operation: its attributes
    s_given,            \* per property: what __init__ or a setter last gave
    s_last,             \* the latest call on the operation and how it ended
    \* ---- get_fused_op_list on one list ----
    f_mode,             \* the mode tag: inference, forward or backward
    f_cls,              \* the class of every operation of the list, in list order
    f_patterns,         \* the fusion patterns of the mode
    f_first,            \* the list the first call returned
    f_list,             \* the list the latest call returned
    fpc,                \* how many times the list was fused
    \* ---- gradVars ----
    g_n,                \* number of units of the pipeline
    g_m,                \* number of elements of the tensors of the call
    g_x,                \* apply: the exposed tensor x
    g_nvte_x,           \* apply: nvte_x
    g_fwd,              \* per unit, in forward order: what its forward did
    g_back,             \* what the latest backward did
    g_slots,            \* per unit: nvte_grad_output of its preceding_backward
    g_i,                \* the unit the call is at
    gpc,                \* position: forward, backward, returned, raised
    \* ---- iterVars ----
    it_n,               \* the training iteration the chain is in
    it_done,            \* per finished iteration: its generators as they ended
    \* ---- pairVars ----
    p_heap,             \* the operation objects, by address
    p_ops,              \* the operation list: addresses
    p_i,                \* index of the operation replaced next
    p_pc                \* position: expanded, copied, replacing, replaced

splitVars == <<fwds0, bwds0, fwds, bwds, functions, used_forwards,
               used_backwards, unmatched_fwd_ops, unmatched_bwd_ops,
               forward, backward, pc>>

trainVars == <<calls, heap, classGrad, _args>>

unitVars == <<unit, params, inputs, todo_bwds, dy, full_grads, outputs, upc>>

handoffVars == <<apply_x, nvte_x, squished_now, tensor_mess, given, nvte_y,
                 returned_prev, exposed_y, fctx, result, n_units, loop_i, hpc>>

ctxVars == <<ctx_unit, ctx_keys, full_ctx, ctxs, ctx_pc>>

squishVars == <<sq_orig, sq_t, sq_calls, sq_error>>

opVars == <<pipeline, memory, gens, infs, prims, threaded, op_i, ppc>>

buildVars == <<b_ops, b_env, b_self, b_heap, b_local, b_log, bpc>>

setupVars == <<s_op, s_given, s_last>>

fuseVars == <<f_mode, f_cls, f_patterns, f_first, f_list, fpc>>

gradVars == <<g_n, g_m, g_x, g_nvte_x, g_fwd, g_back, g_slots, g_i, gpc>>

iterVars == <<it_n, it_done>>

pairVars == <<p_heap, p_ops, p_i, p_pc>>

vars == <<splitVars, trainVars, unitVars, handoffVars, ctxVars, squishVars,
          opVars, buildVars, setupVars, fuseVars, gradVars, iterVars, pairVars>>

\* what split_into_self_contained leaves alone
notSplit == <<trainVars, unitVars, handoffVars, ctxVars, squishVars,
              opVars, buildVars, setupVars, fuseVars, gradVars, iterVars, pairVars>>
\* what apply and ComputePipelineFunction leave alone
notTrain == <<splitVars, unitVars, handoffVars, ctxVars, squishVars,
              opVars, buildVars, setupVars, fuseVars, gradVars, iterVars, pairVars>>
\* what the run of one unit leaves alone
notUnit == <<splitVars, trainVars, handoffVars, ctxVars, squishVars,
              opVars, buildVars, setupVars, fuseVars, gradVars, iterVars, pairVars>>
\* what the forward loop of apply leaves alone
notHandoff == <<splitVars, trainVars, unitVars, ctxVars, squishVars,
              opVars, buildVars, setupVars, fuseVars, gradVars, iterVars, pairVars>>
\* what the contexts of a unit leave alone
notCtx == <<splitVars, trainVars, unitVars, handoffVars, squishVars,
              opVars, buildVars, setupVars, fuseVars, gradVars, iterVars, pairVars>>
\* what _squish and _unsquish leave alone
notSquish == <<splitVars, trainVars, unitVars, handoffVars, ctxVars,
              opVars, buildVars, setupVars, fuseVars, gradVars, iterVars, pairVars>>
\* what the chain of operations leaves alone
notOps == <<splitVars, trainVars, unitVars, handoffVars, ctxVars, squishVars,
           buildVars, setupVars, fuseVars, gradVars, iterVars, pairVars>>
\* what the construction of a pipeline leaves alone
notBuild == <<splitVars, trainVars, unitVars, handoffVars, ctxVars,
              squishVars, opVars, setupVars, fuseVars, gradVars, iterVars, pairVars>>

\* what the setup calls of an Op leave alone
notSetup == <<splitVars, trainVars, unitVars, handoffVars, ctxVars,
              squishVars, opVars, buildVars, fuseVars, gradVars, iterVars, pairVars>>

\* what get_fused_op_list leaves alone
notFuse == <<splitVars, trainVars, unitVars, handoffVars, ctxVars,
             squishVars, opVars, buildVars, setupVars, gradVars, iterVars, pairVars>>

\* what the squish flags of a training call leave alone
notGrad == <<splitVars, trainVars, unitVars, handoffVars, ctxVars,
             squishVars, opVars, buildVars, setupVars, fuseVars, iterVars, pairVars>>

\* what the iterations of a chain leave alone
notIter == <<splitVars, trainVars, unitVars, handoffVars, ctxVars,
             squishVars, buildVars, setupVars, fuseVars, gradVars, pairVars>>

\* what the copies of a Residual leave alone
notPair == <<splitVars, trainVars, unitVars, handoffVars, ctxVars,
             squishVars, opVars, buildVars, setupVars, fuseVars, gradVars,
             iterVars>>

(***************************************************************************)
(* Generic helpers.                                                        *)
(***************************************************************************)
Range(s) == {s[i] : i \in DOMAIN s}

RECURSIVE Flatten(_)
Flatten(ss) == IF ss = <<>> THEN <<>> ELSE Head(ss) \o Flatten(Tail(ss))

Last(s) == s[Len(s)]

(***************************************************************************)
(* Operations.  An elementary Op is identified by the index name_ops gives *)
(* it; a FusedOp carries the elementary ops it was fused from.             *)
(***************************************************************************)
OpIds == 1..NOps

ElementaryOp(k) == [fused |-> FALSE, id |-> k, ops |-> {}]
FusedOp(S)      == [fused |-> TRUE,  id |-> 0, ops |-> S]

\* an item over the elementary ops S: a run of one op stays an Op, a longer
\* run is a FusedOp
ItemOf(S) == IF Cardinality(S) = 1
             THEN ElementaryOp(CHOOSE k \in S : TRUE)
             ELSE FusedOp(S)

\* `fwd.ops if isinstance(fwd, FusedOp) else [fwd]`
OpsOf(item) == IF item.fused THEN item.ops ELSE {item.id}

RECURSIVE OpsOfAll(_)
OpsOfAll(items) ==
    IF items = <<>> THEN {} ELSE OpsOf(Head(items)) \cup OpsOfAll(Tail(items))

\* fused lists in list order: every way of cutting lo..hi into runs
RECURSIVE FusedRuns(_, _)
FusedRuns(lo, hi) ==
    IF lo > hi THEN {<<>>}
    ELSE UNION {{<<ItemOf(lo..m)>> \o rest : rest \in FusedRuns(m + 1, hi)}
                : m \in lo..hi}

\* fused lists in any order and any grouping over the ops S
RECURSIVE FusedGroupings(_)
FusedGroupings(S) ==
    IF S = {} THEN {<<>>}
    ELSE UNION {{<<ItemOf(b)>> \o rest : rest \in FusedGroupings(S \ b)}
                : b \in (SUBSET S) \ {{}}}

\* Forward lists: ops are numbered in forward traversal order (name_ops), so
\* the forward list is a sequence of runs of 1..k.  Backward lists: any
\* grouping, in any order, of any ops.
ForwardLists  == UNION {FusedRuns(1, k) : k \in 0..NOps}
BackwardLists == UNION {FusedGroupings(S) : S \in SUBSET OpIds}

(***************************************************************************)
(* split_into_self_contained                                               *)
(***************************************************************************)
\* list.pop(0): the queue that is left
PopLeft(q) == Tail(q)

\* mutant: the item is inserted at the front
ListPrepend(l, x) == <<x>> \o l

\* list.append
ListAppend(l, x) == Append(l, x)

\* mutant: a matched op is left pending
RemoveMatchedKept(pending, ops) == pending

\* `if op in unmatched: unmatched.remove(op)` over the ops of one item
RemoveMatched(pending, ops) == pending \ ops

\* mutant: the else branch is missing
AddUnmatchedDropped(other, pending, ops) == other

\* `else: other.add(op)` over the ops of one item
AddUnmatched(other, pending, ops) == other \cup (ops \ pending)

\* mutant: the second inner loop is entered without testing its condition
AfterPopBwdNoTest(uf, ub) == IF uf # {} THEN "while_fwd" ELSE "while_bwd"

\* where control goes after the body of the first inner loop (line 85):
\* stay in it, else fall to the second inner loop (line 94), else leave the
\* loop of line 84
AfterPopBwd(uf, ub) ==
    IF uf # {} THEN "while_fwd" ELSE IF ub # {} THEN "while_bwd" ELSE "append"

\* mutant: the loop of line 84 is not tested again for pending forward ops
AfterPopFwdLeaves(uf, ub) == IF ub # {} THEN "while_bwd" ELSE "append"

\* where control goes after the body of the second inner loop (line 94):
\* stay in it, else re-test line 84 and enter the first inner loop, else leave
AfterPopFwd(uf, ub) ==
    IF ub # {} THEN "while_bwd" ELSE IF uf # {} THEN "while_fwd" ELSE "append"

\* mutant: `fwd` (the last forward popped) in place of used_forwards
SelfContainedOpOfFwd(f, b) == [fwds |-> <<Last(f)>>, bwds |-> b]

\* SelfContainedOp(used_forwards, used_backwards)
SelfContainedOp(f, b) == [fwds |-> f, bwds |-> b]

\* mutant: each unit's backward items reversed in the tuple
PipelineBackwardReversed(fns) ==
    Flatten([i \in DOMAIN fns |->
                [j \in DOMAIN fns[i].bwds |->
                    fns[i].bwds[Len(fns[i].bwds) + 1 - j]]])

\* ComputePipeline.__init__ line 128
PipelineForward(fns) == Flatten([i \in DOMAIN fns |-> fns[i].fwds])

\* ComputePipeline.__init__ line 129
PipelineBackward(fns) == Flatten([i \in DOMAIN fns |-> fns[i].bwds])

\* _args before apply has assigned it (line 42 only declares it)
ArgsUnassigned ==
    [assigned |-> FALSE, upcoming_backward |-> 0,
     next_upcoming_backward |-> 0, op |-> <<0, 0>>]

\* no training call is made
NoCalls ==
    [c \in 1..NCalls |-> [pc |-> "done", n |-> 0, i |-> 0, ctxs |-> <<>>,
                          todo |-> 0, log |-> <<>>]]

\* Python None where a gradient is expected
None == [call |-> 0, unit |-> 0, fp8 |-> FALSE, src |-> "None"]

\* Python None where a tensor is expected
NoTensor == [kind |-> "None", op |-> 0, idx |-> 0, grad |-> FALSE]

\* no unit is run
NoUnit == [fwds |-> <<>>, bwds |-> <<>>]

\* Python None where a torch.Tensor is expected
NoTorch == [storage |-> <<"None", 0>>, dtype |-> "None", numel |-> 0]

\* Python None where an nvte.Tensor is expected
NoNvte == [data |-> NoTorch, amax |-> NoTorch, scale |-> NoTorch,
           scale_inv |-> NoTorch]

\* a ctx on which forward has set no squish flag
NoFlags == [nvte_squish_outgoing_dgrad |-> FALSE,
            nvte_unsquish_incoming_dgrad |-> FALSE]

\* an exception: its class and its message
Raised(type, message) == [type |-> type, message |-> message]

\* no exception: the call returned
NoError == Raised("", "")

\* no environment, no pipeline
NoEnv == [fp8_enabled |-> TRUE, world_size |-> 0]

NoPipeline ==
    [_inf |-> <<>>, functions |-> <<>>, forward |-> <<>>, backward |-> <<>>]

\* the locals of __init__ before it has bound them
NoLocals == [ops |-> <<>>, forward |-> <<>>, backward |-> <<>>]

InitSplit ==
    /\ p_heap = <<>> /\ p_ops = <<>> /\ p_i = 0 /\ p_pc = "idle"
    /\ it_n = 0 /\ it_done = <<>>
    /\ g_n = 0 /\ g_m = 0 /\ g_x = NoTorch /\ g_nvte_x = NoNvte
    /\ g_fwd = <<>> /\ g_back = <<>> /\ g_slots = <<>> /\ g_i = 0
    /\ gpc = "idle"
    /\ f_mode = "" /\ f_cls = <<>> /\ f_patterns = {} /\ f_first = <<>>
    /\ f_list = <<>> /\ fpc = "idle"
    /\ s_op = <<>> /\ s_given = <<>> /\ s_last = <<>>
    /\ b_ops = <<>> /\ b_env = NoEnv
    /\ b_self = NoPipeline /\ bpc = "idle"
    /\ b_heap = <<>> /\ b_local = NoLocals /\ b_log = <<>>
    /\ pipeline = <<>> /\ memory = <<>> /\ gens = <<>> /\ infs = <<>>
    /\ prims = <<>> /\ threaded = <<0, "None">> /\ op_i = 0 /\ ppc = "idle"
    /\ sq_orig = NoTorch /\ sq_t = NoTorch /\ sq_calls = <<>>
    /\ sq_error = NoError
    /\ ctx_unit = NoUnit /\ ctx_keys = {} /\ full_ctx = <<>> /\ ctxs = <<>>
    /\ ctx_pc = "idle"
    /\ apply_x = NoTorch /\ nvte_x = NoNvte /\ squished_now = FALSE
    /\ tensor_mess = <<>> /\ given = NoNvte /\ nvte_y = NoNvte
    /\ returned_prev = NoNvte /\ exposed_y = NoTorch /\ fctx = NoFlags
    /\ result = <<>> /\ n_units = 0 /\ loop_i = 0 /\ hpc = "idle"
    /\ calls = NoCalls
    /\ heap = <<>>
    /\ classGrad = None
    /\ _args = ArgsUnassigned
    /\ unit = NoUnit /\ params = <<>> /\ inputs = <<>> /\ todo_bwds = <<>>
    /\ dy = NoTensor /\ full_grads = <<>> /\ outputs = <<>> /\ upc = "idle"
    /\ fwds0 \in ForwardLists
    /\ bwds0 \in BackwardLists
    /\ fwds = fwds0
    /\ bwds = bwds0
    /\ functions = <<>>
    /\ used_forwards = <<>>
    /\ used_backwards = <<>>
    /\ unmatched_fwd_ops = {}
    /\ unmatched_bwd_ops = {}
    /\ forward = <<>>
    /\ backward = <<>>
    /\ pc = "while_queues"

\* lines 76-83: a new unit is started from the next forward item
StartUnit ==
    /\ pc = "while_queues"
    /\ fwds # <<>>
    /\ LET fwd == Head(fwds) IN
         /\ fwds' = PopLeft(fwds)
         /\ unmatched_fwd_ops' = OpsOf(fwd)
         /\ used_forwards' = <<fwd>>
         /\ used_backwards' = <<>>
         /\ unmatched_bwd_ops' = {}
         /\ pc' = AfterPopFwd(OpsOf(fwd), {})
    /\ UNCHANGED notSplit
    /\ UNCHANGED <<fwds0, bwds0, bwds, functions, forward, backward>>

\* lines 76-77 with fwds exhausted and bwds not: pop from an empty list
StartUnitRaises ==
    /\ pc = "while_queues"
    /\ fwds = <<>>
    /\ bwds # <<>>
    /\ pc' = "raised"
    /\ UNCHANGED notSplit
    /\ UNCHANGED <<fwds0, bwds0, fwds, bwds, functions, used_forwards,
                   used_backwards, unmatched_fwd_ops, unmatched_bwd_ops,
                   forward, backward>>

\* lines 85-93: one iteration of `while unmatched_fwd_ops`
PopBwd ==
    /\ pc = "while_fwd"
    /\ bwds # <<>>
    /\ LET bwd == Head(bwds)
           ops == OpsOf(bwd)
           uf  == RemoveMatched(unmatched_fwd_ops, ops)
           ub  == AddUnmatched(unmatched_bwd_ops, unmatched_fwd_ops, ops)
       IN
         /\ bwds' = PopLeft(bwds)
         /\ used_backwards' = ListAppend(used_backwards, bwd)
         /\ unmatched_fwd_ops' = uf
         /\ unmatched_bwd_ops' = ub
         /\ pc' = AfterPopBwd(uf, ub)
    /\ UNCHANGED notSplit
    /\ UNCHANGED <<fwds0, bwds0, fwds, functions, used_forwards,
                   forward, backward>>

\* line 86 with bwds exhausted: pop from an empty list
PopBwdRaises ==
    /\ pc = "while_fwd"
    /\ bwds = <<>>
    /\ pc' = "raised"
    /\ UNCHANGED notSplit
    /\ UNCHANGED <<fwds0, bwds0, fwds, bwds, functions, used_forwards,
                   used_backwards, unmatched_fwd_ops, unmatched_bwd_ops,
                   forward, backward>>

\* lines 94-102: one iteration of `while unmatched_bwd_ops`
PopFwd ==
    /\ pc = "while_bwd"
    /\ fwds # <<>>
    /\ LET fwd == Head(fwds)
           ops == OpsOf(fwd)
           ub  == RemoveMatched(unmatched_bwd_ops, ops)
           uf  == AddUnmatched(unmatched_fwd_ops, unmatched_bwd_ops, ops)
       IN
         /\ fwds' = PopLeft(fwds)
         /\ used_forwards' = ListAppend(used_forwards, fwd)
         /\ unmatched_bwd_ops' = ub
         /\ unmatched_fwd_ops' = uf
         /\ pc' = AfterPopFwd(uf, ub)
    /\ UNCHANGED notSplit
    /\ UNCHANGED <<fwds0, bwds0, bwds, functions, used_backwards,
                   forward, backward>>

\* line 95 with fwds exhausted: pop from an empty list
PopFwdRaises ==
    /\ pc = "while_bwd"
    /\ fwds = <<>>
    /\ pc' = "raised"
    /\ UNCHANGED notSplit
    /\ UNCHANGED <<fwds0, bwds0, fwds, bwds, functions, used_forwards,
                   used_backwards, unmatched_fwd_ops, unmatched_bwd_ops,
                   forward, backward>>

\* line 103: the unit is closed
AppendUnit ==
    /\ pc = "append"
    /\ functions' = Append(functions,
                           SelfContainedOp(used_forwards, used_backwards))
    /\ pc' = "while_queues"
    /\ UNCHANGED notSplit
    /\ UNCHANGED <<fwds0, bwds0, fwds, bwds, used_forwards, used_backwards,
                   unmatched_fwd_ops, unmatched_bwd_ops, forward, backward>>

\* lines 76 and 104 with both queues empty, then ComputePipeline.__init__
\* lines 125-129
ReturnFunctions ==
    /\ pc = "while_queues"
    /\ fwds = <<>>
    /\ bwds = <<>>
    /\ forward' = PipelineForward(functions)
    /\ backward' = PipelineBackward(functions)
    /\ pc' = "returned"
    /\ UNCHANGED notSplit
    /\ UNCHANGED <<fwds0, bwds0, fwds, bwds, functions, used_forwards,
                   used_backwards, unmatched_fwd_ops, unmatched_bwd_ops>>

NextSplit ==
    \/ StartUnit
    \/ StartUnitRaises
    \/ PopBwd
    \/ PopBwdRaises
    \/ PopFwd
    \/ PopFwdRaises
    \/ AppendUnit
    \/ ReturnFunctions


(***************************************************************************)
(* Properties of split_into_self_contained.                                *)
(***************************************************************************)
\* the precondition: the two lists cover the same elementary operations
\* (each list holds every op at most once by construction)
Matched == OpsOfAll(fwds0) = OpsOfAll(bwds0)

Returned == pc = "returned"

Prefix(s, n) == SubSeq(s, 1, n)

\* positions (unit, index) at which item x sits in the forward/backward lists
FwdPlaces(x) == {<<u, i>> \in (DOMAIN functions) \X (1..NOps) :
                    i <= Len(functions[u].fwds) /\ functions[u].fwds[i] = x}
BwdPlaces(x) == {<<u, i>> \in (DOMAIN functions) \X (1..NOps) :
                    i <= Len(functions[u].bwds) /\ functions[u].bwds[i] = x}

\* s is the run of `whole` that starts right after offset off
IsRunAt(s, whole, off) ==
    /\ off + Len(s) <= Len(whole)
    /\ \A i \in DOMAIN s : s[i] = whole[off + i]

\* C1: under the precondition, in every unit the set of elementary ops of
\* the forward items equals the set of elementary ops of the backward items.
C1_UnitSetsEqual ==
    Matched =>
        \A u \in DOMAIN functions :
            OpsOfAll(functions[u].fwds) = OpsOfAll(functions[u].bwds)

C1_Witness ==
    /\ Returned /\ Matched
    /\ Len(functions) >= 2
    /\ \E u \in DOMAIN functions :
          Len(functions[u].fwds) # Len(functions[u].bwds)

\* C2: under the precondition, the returned units hold every forward item
\* and every backward item of the inputs exactly once, hold nothing else, and
\* no elementary op is in two different units.
C2_CoverExactlyOnce ==
    (Returned /\ Matched) =>
        /\ \A j \in DOMAIN fwds0 : Cardinality(FwdPlaces(fwds0[j])) = 1
        /\ \A j \in DOMAIN bwds0 : Cardinality(BwdPlaces(bwds0[j])) = 1
        /\ \A u \in DOMAIN functions :
              /\ Range(functions[u].fwds) \subseteq Range(fwds0)
              /\ Range(functions[u].bwds) \subseteq Range(bwds0)
        /\ \A u, v \in DOMAIN functions :
              u # v =>
                (OpsOfAll(functions[u].fwds) \cup OpsOfAll(functions[u].bwds))
                \cap
                (OpsOfAll(functions[v].fwds) \cup OpsOfAll(functions[v].bwds))
                = {}

C2_Witness ==
    /\ Returned /\ Matched
    /\ Len(functions) = 2
    /\ Len(fwds0) = 3
    /\ Len(bwds0) = 3

\* C3: the forward lists of the returned units, concatenated in output
\* order, are the input forward list in its order; each is a run of it; and
\* ComputePipeline.forward is that list.
C3_ForwardOrder ==
    (Returned /\ Matched) =>
        /\ Flatten([u \in DOMAIN functions |-> functions[u].fwds]) = fwds0
        /\ \A u \in DOMAIN functions :
              \E off \in 0..Len(fwds0) :
                 /\ IsRunAt(functions[u].fwds, fwds0, off)
                 /\ off = Len(Flatten([v \in 1..(u - 1) |-> functions[v].fwds]))
        /\ forward = fwds0

C3_Witness ==
    /\ Returned /\ Matched
    /\ Len(functions) >= 2
    /\ \E u \in DOMAIN functions : Len(functions[u].fwds) >= 2

\* C4: the backward lists of the returned units, concatenated in output
\* order, are the input backward list in its order; each is a run of it; and
\* ComputePipeline.backward is that list.
C4_BackwardOrder ==
    (Returned /\ Matched) =>
        /\ Flatten([u \in DOMAIN functions |-> functions[u].bwds]) = bwds0
        /\ \A u \in DOMAIN functions :
              \E off \in 0..Len(bwds0) :
                 /\ IsRunAt(functions[u].bwds, bwds0, off)
                 /\ off = Len(Flatten([v \in 1..(u - 1) |-> functions[v].bwds]))
        /\ backward = bwds0

C4_Witness ==
    /\ Returned /\ Matched
    /\ Len(functions) >= 2
    /\ \E u \in DOMAIN functions : Len(functions[u].bwds) >= 2

\* a proper cut of unit u: i forward items and j backward items, not both
\* none and not both all, that span the same elementary ops
ProperCut(u, i, j) ==
    /\ <<i, j>> # <<0, 0>>
    /\ <<i, j>> # <<Len(u.fwds), Len(u.bwds)>>
    /\ OpsOfAll(Prefix(u.fwds, i)) = OpsOfAll(Prefix(u.bwds, j))

\* C5: under the precondition every unit is minimal (it has no proper cut),
\* and a unit is closed exactly when both pending sets are empty.
C5_UnitsMinimal ==
    /\ Matched =>
         \A u \in DOMAIN functions :
            \A i \in 0..Len(functions[u].fwds) :
               \A j \in 0..Len(functions[u].bwds) :
                  ~ProperCut(functions[u], i, j)
    /\ pc \in {"while_fwd", "while_bwd"} =>
          (unmatched_fwd_ops # {} \/ unmatched_bwd_ops # {})
    /\ pc = "append" => (unmatched_fwd_ops = {} /\ unmatched_bwd_ops = {})

C5_Witness ==
    /\ Returned /\ Matched
    /\ \E u \in DOMAIN functions :
          /\ Len(functions[u].fwds) >= 2
          /\ Len(functions[u].bwds) >= 2

\* C6: under the precondition split_into_self_contained never pops an empty
\* queue, and it returns, with both work queues drained.
C6_Terminates ==
    /\ [](Matched => pc # "raised")
    /\ Matched => <>(Returned /\ fwds = <<>> /\ bwds = <<>>)

C6_Witness ==
    /\ Returned /\ Matched
    /\ Len(fwds0) + Len(bwds0) >= 6
    /\ fwds = <<>> /\ bwds = <<>>

\* C30: when the two lists do not cover the same elementary operations,
\* split_into_self_contained never returns: it ends raising, on a pop from
\* an exhausted queue.  Whatever the lists, no unit it has closed has a
\* forward and a backward set of elementary operations that differ, and a
\* list it returns holds every item of both inputs, in their order
C30_MismatchRaises ==
    /\ [](~Matched => ~Returned)
    /\ [](pc = "raised" =>
            \/ fwds = <<>> /\ (bwds # <<>> \/ unmatched_bwd_ops # {})
            \/ bwds = <<>> /\ unmatched_fwd_ops # {})
    /\ [](\A u \in DOMAIN functions :
            OpsOfAll(functions[u].fwds) = OpsOfAll(functions[u].bwds))
    /\ [](Returned =>
            /\ Flatten([u \in DOMAIN functions |-> functions[u].fwds]) = fwds0
            /\ Flatten([u \in DOMAIN functions |-> functions[u].bwds]) = bwds0)
    /\ ~Matched => <>(pc = "raised")

\* a backward list with an operation the forward list has not: one unit
\* was closed, then the forward queue ran out with a backward item left
C30_Witness ==
    /\ pc = "raised"
    /\ ~Matched
    /\ Len(functions) >= 1
    /\ fwds = <<>>
    /\ bwds # <<>>
    /\ OpsOfAll(bwds0) \ OpsOfAll(fwds0) # {}

(***************************************************************************)
(* apply(x, pipeline, training=True) and ComputePipelineFunction.          *)
(*                                                                         *)
(* Units are numbered 0..n-1 in forward order, as enumerate() does.  A     *)
(* gradient is a record naming the call and unit that produced it, so that *)
(* "the same gradient" is decidable.  The dtype reinterpretation of the    *)
(* exposed tensors (squish) does not touch the relay slots and is left     *)
(* out of this part.                                                       *)
(***************************************************************************)
Calls == 1..NCalls

\* Python None where a BackwardComm is expected (instances are 1, 2, ...)
NoComm == 0

\* what autograd hands to backward as grad_output
GradOutput(c, u) == [call |-> c, unit |-> u, fp8 |-> FALSE, src |-> "grad_output"]

\* the data gradient returned by op.backward of unit u in call c
DataGrad(c, u, fp8) == [call |-> c, unit |-> u, fp8 |-> fp8, src |-> "op.backward"]

\* mutant: the attribute is looked up on the class
GetGradOfClass(h, cls, id) == cls

\* `comm.nvte_grad_output`: the instance's own attribute, else the class's
GetGrad(h, cls, id) == IF h[id] = <<>> THEN cls ELSE h[id][1]

\* mutant: the assignment is made on the class, BackwardComm.nvte_grad_output
SetGradOnClass(h, cls, id, g) == [heap |-> h, classGrad |-> g]

\* `comm.nvte_grad_output = data_grad`: sets the instance's own attribute
SetGrad(h, cls, id, g) == [heap |-> [h EXCEPT ![id] = <<g>>], classGrad |-> cls]

\* mutant: the previous ForwardArgs' upcoming_backward is handed on
UpcomingOfPrevious(i, a) == IF i = 0 THEN NoComm ELSE a.upcoming_backward

\* the upcoming_backward argument of ForwardArgs in apply, lines 219-234
Upcoming(i, a) == IF i = 0 THEN NoComm ELSE a.next_upcoming_backward

\* ForwardArgs.__init__: next_upcoming_backward is a new BackwardComm()
ForwardArgs(upcoming, op, h) ==
    [assigned |-> TRUE,
     upcoming_backward |-> upcoming,
     next_upcoming_backward |-> Len(h) + 1,
     op |-> op]

\* what ComputePipelineFunction.forward saves on ctx, lines 96 and 148-149
SavedCtx(a) ==
    [nvte_op |-> a.op,
     nvte_upcoming_backward_comm |-> a.upcoming_backward,
     nvte_preceding_backward_comm |-> a.next_upcoming_backward]

\* another call is inside apply's loop: control is single-threaded (spec
\* section 5), so nothing else runs meanwhile
InApply(d) == calls[d].pc \in {"apply", "function"}

OthersOutsideApply(c) == \A d \in Calls \ {c} : ~InApply(d)

InitTrain ==
    /\ p_heap = <<>> /\ p_ops = <<>> /\ p_i = 0 /\ p_pc = "idle"
    /\ it_n = 0 /\ it_done = <<>>
    /\ g_n = 0 /\ g_m = 0 /\ g_x = NoTorch /\ g_nvte_x = NoNvte
    /\ g_fwd = <<>> /\ g_back = <<>> /\ g_slots = <<>> /\ g_i = 0
    /\ gpc = "idle"
    /\ f_mode = "" /\ f_cls = <<>> /\ f_patterns = {} /\ f_first = <<>>
    /\ f_list = <<>> /\ fpc = "idle"
    /\ s_op = <<>> /\ s_given = <<>> /\ s_last = <<>>
    /\ b_ops = <<>> /\ b_env = NoEnv
    /\ b_self = NoPipeline /\ bpc = "idle"
    /\ b_heap = <<>> /\ b_local = NoLocals /\ b_log = <<>>
    /\ pipeline = <<>> /\ memory = <<>> /\ gens = <<>> /\ infs = <<>>
    /\ prims = <<>> /\ threaded = <<0, "None">> /\ op_i = 0 /\ ppc = "idle"
    /\ sq_orig = NoTorch /\ sq_t = NoTorch /\ sq_calls = <<>>
    /\ sq_error = NoError
    /\ ctx_unit = NoUnit /\ ctx_keys = {} /\ full_ctx = <<>> /\ ctxs = <<>>
    /\ ctx_pc = "idle"
    /\ apply_x = NoTorch /\ nvte_x = NoNvte /\ squished_now = FALSE
    /\ tensor_mess = <<>> /\ given = NoNvte /\ nvte_y = NoNvte
    /\ returned_prev = NoNvte /\ exposed_y = NoTorch /\ fctx = NoFlags
    /\ result = <<>> /\ n_units = 0 /\ loop_i = 0 /\ hpc = "idle"
    /\ calls = [c \in Calls |-> [pc |-> "idle", n |-> 0, i |-> 0, ctxs |-> <<>>,
                                 todo |-> 0, log |-> <<>>]]
    /\ heap = <<>>
    /\ classGrad = None
    /\ _args = ArgsUnassigned
    \* no pipeline is being built
    /\ fwds0 = <<>> /\ bwds0 = <<>> /\ fwds = <<>> /\ bwds = <<>>
    /\ functions = <<>> /\ used_forwards = <<>> /\ used_backwards = <<>>
    /\ unmatched_fwd_ops = {} /\ unmatched_bwd_ops = {}
    /\ forward = <<>> /\ backward = <<>> /\ pc = "returned"
    /\ unit = NoUnit /\ params = <<>> /\ inputs = <<>> /\ todo_bwds = <<>>
    /\ dy = NoTensor /\ full_grads = <<>> /\ outputs = <<>> /\ upc = "idle"

\* apply, lines 209-216, is called with training=True on a pipeline of n
\* units; calls are numbered in the order in which apply is called
ApplyTraining(c) ==
    /\ calls[c].pc = "idle"
    /\ \A d \in Calls : d < c => calls[d].pc # "idle"
    /\ OthersOutsideApply(c)
    /\ \E n \in 1..MaxUnits :
         calls' = [calls EXCEPT ![c].pc = "apply", ![c].n = n, ![c].todo = n]
    /\ UNCHANGED <<heap, classGrad, _args>>
    /\ UNCHANGED notTrain

\* apply, lines 217-234: `_args = ForwardArgs(...)` for unit i
MakeForwardArgs(c) ==
    /\ calls[c].pc = "apply"
    /\ calls[c].i < calls[c].n
    /\ _args' = ForwardArgs(Upcoming(calls[c].i, _args), <<c, calls[c].i>>, heap)
    /\ heap' = Append(heap, <<>>)
    /\ calls' = [calls EXCEPT ![c].pc = "function"]
    /\ UNCHANGED classGrad
    /\ UNCHANGED notTrain

\* apply, lines 236-250: ComputePipelineFunction.apply -> forward, lines 74-151
FunctionForward(c) ==
    /\ calls[c].pc = "function"
    /\ calls' = [calls EXCEPT
                   ![c].ctxs = Append(@, SavedCtx(_args)),
                   ![c].i = @ + 1,
                   ![c].pc = IF calls[c].i + 1 = calls[c].n
                             THEN "forwarded" ELSE "apply"]
    /\ UNCHANGED <<heap, classGrad, _args>>
    /\ UNCHANGED notTrain

\* ComputePipelineFunction.backward, lines 154-185, of the unit that autograd
\* runs next in call c (units run n-1 down to 0): what it reads and computes;
\* op.backward returns a data gradient that is fp8 or not (fp8) and parameter
\* gradients of which some are fp8 or none is (pfp8)
BackwardRun(c, fp8, pfp8) ==
    LET u    == calls[c].todo - 1
        ctx  == calls[c].ctxs[u + 1]
        slot == GetGrad(heap, classGrad, ctx.nvte_preceding_backward_comm)
        last == ctx.nvte_upcoming_backward_comm = NoComm
    IN  [unit |-> u,
         op |-> ctx.nvte_op,
         slot |-> slot,
         nvte_grad |-> IF slot = None THEN GradOutput(c, u) ELSE slot,
         data_grad |-> DataGrad(c, u, fp8),
         param_fp8 |-> pfp8,
         read |-> ctx.nvte_preceding_backward_comm,
         wrote |-> ctx.nvte_upcoming_backward_comm,
         dgrad_asserted |-> last]

CanRunBackward(c) ==
    /\ calls[c].pc = "forwarded"
    /\ calls[c].todo > 0
    /\ \A d \in Calls : ~InApply(d)

\* lines 187-192: the relay slots after the backward run r
Relay(r) ==
    IF r.dgrad_asserted
    THEN [heap |-> heap, classGrad |-> classGrad]
    ELSE SetGrad(heap, classGrad, r.wrote, r.data_grad)

\* line 190: assert not nvte.is_fp8(data_grad), where the assert is reached
DgradAssertPasses(r) == ~(r.dgrad_asserted /\ r.data_grad.fp8)

\* mutant: the parameter gradients are not looked at
ParamAssertSkipped(r) == TRUE

\* line 196: assert all(not nvte.is_fp8(g) for g in param_grads)
ParamAssertPasses(r) == ~r.param_fp8

\* what one run of backward has handed to autograd: the gradients of
\* lines 204-206, or nothing when it raised
Handed(r, returned) ==
    [unit |-> r.unit, op |-> r.op, slot |-> r.slot, nvte_grad |-> r.nvte_grad,
     data_grad |-> r.data_grad, param_fp8 |-> r.param_fp8, read |-> r.read,
     wrote |-> r.wrote, dgrad_asserted |-> r.dgrad_asserted,
     returned |-> returned]

\* ComputePipelineFunction.backward returns its gradients, lines 154-206
FunctionBackward(c) ==
    /\ CanRunBackward(c)
    /\ \E fp8 \in BOOLEAN, pfp8 \in BOOLEAN :
         LET r == BackwardRun(c, fp8, pfp8) IN
           /\ DgradAssertPasses(r)
           /\ ParamAssertPasses(r)
           /\ heap' = Relay(r).heap
           /\ classGrad' = Relay(r).classGrad
           /\ calls' = [calls EXCEPT
                          ![c].log = Append(@, Handed(r, TRUE)),
                          ![c].todo = @ - 1,
                          ![c].pc = IF calls[c].todo = 1 THEN "done" ELSE @]
    /\ UNCHANGED _args
    /\ UNCHANGED notTrain

\* line 190: `assert not nvte.is_fp8(data_grad)` fails at the last backward
BackwardDgradAssertFails(c) ==
    /\ CanRunBackward(c)
    /\ \E fp8 \in BOOLEAN, pfp8 \in BOOLEAN :
         LET r == BackwardRun(c, fp8, pfp8) IN
           /\ ~DgradAssertPasses(r)
           /\ calls' = [calls EXCEPT ![c].log = Append(@, Handed(r, FALSE)),
                                     ![c].pc = "raised"]
    /\ UNCHANGED <<heap, classGrad, _args>>
    /\ UNCHANGED notTrain

\* line 196: `assert all(not nvte.is_fp8(g) for g in param_grads)` fails,
\* after lines 187-192 have run
BackwardParamAssertFails(c) ==
    /\ CanRunBackward(c)
    /\ \E fp8 \in BOOLEAN, pfp8 \in BOOLEAN :
         LET r == BackwardRun(c, fp8, pfp8) IN
           /\ DgradAssertPasses(r)
           /\ ~ParamAssertPasses(r)
           /\ heap' = Relay(r).heap
           /\ classGrad' = Relay(r).classGrad
           /\ calls' = [calls EXCEPT ![c].log = Append(@, Handed(r, FALSE)),
                                     ![c].pc = "raised"]
    /\ UNCHANGED _args
    /\ UNCHANGED notTrain

NextTrain ==
    \E c \in Calls :
        \/ ApplyTraining(c)
        \/ MakeForwardArgs(c)
        \/ FunctionForward(c)
        \/ FunctionBackward(c)
        \/ BackwardDgradAssertFails(c)
        \/ BackwardParamAssertFails(c)

(***************************************************************************)
(* Two training calls on two threads (compute_pipeline_function.py lines   *)
(* 42, 82-97, 215-248).  _args is one module-level name that every apply   *)
(* assigns and every forward reads, and nothing keeps a thread from        *)
(* running between the assignment in one call and the forward of another.  *)
(***************************************************************************)
InitThreads ==
    /\ p_heap = <<>> /\ p_ops = <<>> /\ p_i = 0 /\ p_pc = "idle"
    /\ it_n = 0 /\ it_done = <<>>
    /\ g_n = 0 /\ g_m = 0 /\ g_x = NoTorch /\ g_nvte_x = NoNvte
    /\ g_fwd = <<>> /\ g_back = <<>> /\ g_slots = <<>> /\ g_i = 0
    /\ gpc = "idle"
    /\ b_ops = <<>> /\ b_env = NoEnv
    /\ b_self = NoPipeline /\ bpc = "idle"
    /\ b_heap = <<>> /\ b_local = NoLocals /\ b_log = <<>>
    /\ pipeline = <<>> /\ memory = <<>> /\ gens = <<>> /\ infs = <<>>
    /\ prims = <<>> /\ threaded = <<0, "None">> /\ op_i = 0 /\ ppc = "idle"
    /\ fwds0 = <<>> /\ bwds0 = <<>> /\ fwds = <<>> /\ bwds = <<>>
    /\ functions = <<>> /\ used_forwards = <<>> /\ used_backwards = <<>>
    /\ unmatched_fwd_ops = {} /\ unmatched_bwd_ops = {}
    /\ forward = <<>> /\ backward = <<>> /\ pc = "returned"
    /\ unit = NoUnit /\ params = <<>> /\ inputs = <<>> /\ todo_bwds = <<>>
    /\ dy = NoTensor /\ full_grads = <<>> /\ outputs = <<>> /\ upc = "idle"
    /\ apply_x = NoTorch /\ nvte_x = NoNvte /\ squished_now = FALSE
    /\ tensor_mess = <<>> /\ given = NoNvte /\ nvte_y = NoNvte
    /\ returned_prev = NoNvte /\ exposed_y = NoTorch /\ fctx = NoFlags
    /\ result = <<>> /\ n_units = 0 /\ loop_i = 0 /\ hpc = "idle"
    /\ ctx_unit = NoUnit /\ ctx_keys = {} /\ full_ctx = <<>> /\ ctxs = <<>>
    /\ ctx_pc = "idle"
    /\ sq_orig = NoTorch /\ sq_t = NoTorch /\ sq_calls = <<>>
    /\ sq_error = NoError
    /\ s_op = <<>> /\ s_given = <<>> /\ s_last = <<>>
    /\ f_mode = "" /\ f_cls = <<>> /\ f_patterns = {} /\ f_first = <<>>
    /\ f_list = <<>> /\ fpc = "idle"
    /\ calls = [c \in Calls |-> [pc |-> "idle", n |-> 0, i |-> 0, ctxs |-> <<>>,
                                 todo |-> 0, log |-> <<>>]]
    /\ heap = <<>>
    /\ classGrad = None
    /\ _args = ArgsUnassigned

\* apply, lines 209-216, is called with training=True on a thread of its
\* own, whatever the other calls are doing
ApplyOnThread(c) ==
    /\ calls[c].pc = "idle"
    /\ \A d \in Calls : d < c => calls[d].pc # "idle"
    /\ \E n \in 1..MaxUnits :
         calls' = [calls EXCEPT ![c].pc = "apply", ![c].n = n, ![c].todo = n]
    /\ UNCHANGED <<heap, classGrad, _args>>
    /\ UNCHANGED notTrain

NextThreads ==
    \E c \in Calls :
        \/ ApplyOnThread(c)
        \/ MakeForwardArgs(c)
        \/ FunctionForward(c)

\* C39: however the steps of two concurrent training calls interleave,
\* every forward saves the op of its own call's unit, the first unit no
\* upcoming relay slot and every later unit the slot its own call made for
\* the unit before it
C39_ForwardUsesOwnArgs ==
    \A c \in Calls : \A u \in DOMAIN calls[c].ctxs :
        LET ctx == calls[c].ctxs[u] IN
          /\ ctx.nvte_op = <<c, u - 1>>
          /\ ctx.nvte_upcoming_backward_comm =
                IF u = 1 THEN NoComm
                ELSE calls[c].ctxs[u - 1].nvte_preceding_backward_comm


(***************************************************************************)
(* Properties of the relay slots.                                          *)
(***************************************************************************)
Log(c) == calls[c].log

\* the BackwardComm instances captured by the contexts of call c
CommsOf(c) ==
    {calls[c].ctxs[k].nvte_preceding_backward_comm : k \in DOMAIN calls[c].ctxs}
    \cup ({calls[c].ctxs[k].nvte_upcoming_backward_comm : k \in DOMAIN calls[c].ctxs}
          \ {NoComm})

\* C7: with the backwards of a call run n-1 down to 0, unit n-1 takes its
\* gradient from grad_output, every unit i < n-1 takes exactly the data
\* gradient unit i+1's op.backward returned in the same call, from the relay
\* slot, and once the pass has ended every slot written has been read by the
\* backward of the unit before the writer.
C7_RelayChain ==
    \A c \in Calls :
        /\ \A k \in DOMAIN Log(c) :
              /\ Log(c)[k].unit = calls[c].n - k
              /\ (k = 1) => Log(c)[k].nvte_grad = GradOutput(c, calls[c].n - 1)
              /\ (k > 1) =>
                    /\ Log(c)[k].nvte_grad = Log(c)[k - 1].data_grad
                    /\ Log(c)[k].nvte_grad = Log(c)[k].slot
                    /\ Log(c)[k].nvte_grad.src = "op.backward"
                    /\ Log(c)[k].read = Log(c)[k - 1].wrote
        /\ calls[c].pc = "done" =>
              \A k \in DOMAIN Log(c) :
                 Log(c)[k].wrote # NoComm =>
                    \E j \in DOMAIN Log(c) :
                       /\ j > k
                       /\ Log(c)[j].read = Log(c)[k].wrote
                       /\ Log(c)[j].unit = Log(c)[k].unit - 1

C7_Witness ==
    \E c \in Calls :
        /\ calls[c].pc = "done"
        /\ calls[c].n = 3
        /\ Len(Log(c)) = 3
        /\ Log(c)[3].nvte_grad = Log(c)[2].data_grad

\* C8: a backward of one call reads only gradients of its own call, the
\* first backward of every call finds its incoming slot empty, and no
\* BackwardComm is shared by two calls; for every order of the calls'
\* forward passes and every interleaving of their backward passes.
C8_SlotsPerCall ==
    /\ \A c \in Calls :
          \A k \in DOMAIN Log(c) :
             /\ Log(c)[k].nvte_grad.call = c
             /\ Log(c)[k].slot # None => Log(c)[k].slot.call = c
             /\ (k = 1) => Log(c)[k].slot = None
    /\ \A c, d \in Calls : c # d => CommsOf(c) \cap CommsOf(d) = {}

C8_Witness ==
    \E c, d \in Calls :
        /\ c # d
        /\ calls[c].n >= 2 /\ calls[d].n >= 2
        /\ calls[c].pc = "forwarded" /\ Len(Log(c)) = 1
        /\ calls[d].pc = "done"
        /\ heap[calls[c].ctxs[calls[c].n].nvte_upcoming_backward_comm] # <<>>

\* C9 as stated: with units in forward order, the first unit (unit 0) has
\* no incoming relay gradient in its backward, and the data gradient
\* assertion is applied at the last unit (unit n-1).
C9_FirstUnitNoRelay ==
    \A c \in Calls :
        \A k \in DOMAIN Log(c) :
           /\ Log(c)[k].unit = 0 => Log(c)[k].slot = None
           /\ Log(c)[k].dgrad_asserted <=> (Log(c)[k].unit = calls[c].n - 1)

\* C9 as amended: with units in forward order, the last unit (unit n-1, the
\* first backward to run) has no incoming relay gradient, and the data
\* gradient assertion is applied at the first unit (unit 0, the last
\* backward to run) and only there, so that a completed pass returns no
\* low-precision data gradient.
C9_LastUnitNoRelay ==
    \A c \in Calls :
        /\ \A k \in DOMAIN Log(c) :
              /\ Log(c)[k].unit = calls[c].n - 1 =>
                    /\ Log(c)[k].slot = None
                    /\ Log(c)[k].nvte_grad.src = "grad_output"
              /\ Log(c)[k].dgrad_asserted <=> (Log(c)[k].unit = 0)
        /\ calls[c].pc = "done" => ~Log(c)[calls[c].n].data_grad.fp8

C9_Witness ==
    \E c \in Calls :
        /\ calls[c].n >= 2
        /\ calls[c].pc = "raised"
        /\ Len(Log(c)) = calls[c].n
        /\ Log(c)[calls[c].n].dgrad_asserted
        /\ Log(c)[calls[c].n].data_grad.fp8
        /\ Log(c)[calls[c].n].slot # None

(***************************************************************************)
(* Properties of the gradients handed to autograd.                         *)
(***************************************************************************)
\* C15: a backward whose op.backward produced an fp8 parameter gradient
\* raises and returns no gradients; a training call whose backward pass has
\* completed returned no fp8 parameter gradient from any unit and no fp8
\* data gradient from unit 0.
C15_NoFp8ToHost ==
    \A c \in Calls :
        /\ \A k \in DOMAIN Log(c) :
              Log(c)[k].param_fp8 =>
                  /\ ~Log(c)[k].returned
                  /\ calls[c].pc = "raised"
                  /\ k = Len(Log(c))
        /\ calls[c].pc = "done" =>
              /\ Len(Log(c)) = calls[c].n
              /\ \A k \in DOMAIN Log(c) :
                    /\ Log(c)[k].returned
                    /\ ~Log(c)[k].param_fp8
              /\ Log(c)[calls[c].n].unit = 0
              /\ ~Log(c)[calls[c].n].data_grad.fp8

\* one call has failed on an fp8 parameter gradient in its second backward,
\* another has completed with an fp8 data gradient relayed between units
C15_Witness ==
    \E c, d \in Calls :
        /\ c # d
        /\ calls[c].pc = "raised"
        /\ Len(Log(c)) = 2
        /\ Log(c)[2].param_fp8 /\ ~Log(c)[2].returned
        /\ calls[d].pc = "done"
        /\ calls[d].n >= 2
        /\ Log(d)[1].data_grad.fp8

(***************************************************************************)
(* One self-contained unit behind ComputePipelineFunction.                 *)
(*                                                                         *)
(* A tensor is a record naming what it is; GradOf(t) is the gradient with  *)
(* respect to t.  The gradient threaded through SelfContainedOp.backward   *)
(* is the gradient with respect to the input of the backward item idx + 1, *)
(* so that idx = 0 is the gradient with respect to the unit's input.       *)
(***************************************************************************)
Tensor(kind, k, j) == [kind |-> kind, op |-> k, idx |-> j, grad |-> FALSE]

GradOf(t) == [t EXCEPT !.grad = TRUE]

\* exposed_x, and the gradient with respect to the input of item j + 1
ExposedX == Tensor("x", 0, 0)
DyAt(j) == GradOf(Tensor("x", 0, j))

\* `*(nvte_x.data, nvte_x.amax, nvte_x.scale, nvte_x.scale_inv)`
PackedMeta ==
    <<Tensor("data", 0, 0), Tensor("amax", 0, 0),
      Tensor("scale", 0, 0), Tensor("scale_inv", 0, 0)>>

\* the members of a FusedOp in list order
RECURSIVE InListOrder(_)
InListOrder(S) ==
    IF S = {} THEN <<>>
    ELSE LET k == CHOOSE x \in S : \A y \in S : x <= y
         IN  <<k>> \o InListOrder(S \ {k})

\* op.args() of the elementary operation k: its parameter tensors
OpArgs(k) == [j \in 1..params[k] |-> Tensor("param", k, j)]

\* op.args() of an item: a FusedOp lists its members' in list order
ItemArgs(item) ==
    IF item.fused
    THEN Flatten([i \in 1..Cardinality(item.ops) |->
                     OpArgs(InListOrder(item.ops)[i])])
    ELSE OpArgs(item.id)

\* the grads op.backward returns: one per parameter, in the order of args()
ItemGrads(item) == [i \in DOMAIN ItemArgs(item) |-> GradOf(ItemArgs(item)[i])]

\* mutant: the gradient an item returns is dropped, the next item gets the
\* gradient the item before it got
ItemDyDropped(g) == g

\* the data gradient op.backward returns: with respect to the item's input
ItemDy(g) == [g EXCEPT !.idx = @ - 1]

\* SelfContainedOp.args, line 52 (apply reads the unit's tensors through
\* require_grad(), which src does not hold)
SelfContainedArgs(u) == Flatten([i \in DOMAIN u.fwds |-> ItemArgs(u.fwds[i])])

\* apply, lines 236-248: the arguments of ComputePipelineFunction.apply
ForwardInputs(u) == <<ExposedX>> \o SelfContainedArgs(u) \o PackedMeta

\* ComputePipelineFunction.backward, lines 199-206
BackwardOutputs(data_grad, param_grads) ==
    <<data_grad>> \o param_grads \o <<NoTensor, NoTensor, NoTensor>>

\* the units split_into_self_contained emits: forward and backward runs of
\* the same ops 1..k with no proper cut
IsSelfContained(u) ==
    /\ OpsOfAll(u.fwds) = OpsOfAll(u.bwds)
    /\ \A i \in 0..Len(u.fwds) : \A j \in 0..Len(u.bwds) : ~ProperCut(u, i, j)

Units ==
    UNION {{u \in {SelfContainedOp(p[1], p[2]) :
                      p \in FusedRuns(1, k) \X FusedRuns(1, k)} :
              IsSelfContained(u)} : k \in 1..NOps}

InitUnit ==
    /\ p_heap = <<>> /\ p_ops = <<>> /\ p_i = 0 /\ p_pc = "idle"
    /\ it_n = 0 /\ it_done = <<>>
    /\ g_n = 0 /\ g_m = 0 /\ g_x = NoTorch /\ g_nvte_x = NoNvte
    /\ g_fwd = <<>> /\ g_back = <<>> /\ g_slots = <<>> /\ g_i = 0
    /\ gpc = "idle"
    /\ f_mode = "" /\ f_cls = <<>> /\ f_patterns = {} /\ f_first = <<>>
    /\ f_list = <<>> /\ fpc = "idle"
    /\ s_op = <<>> /\ s_given = <<>> /\ s_last = <<>>
    /\ b_ops = <<>> /\ b_env = NoEnv
    /\ b_self = NoPipeline /\ bpc = "idle"
    /\ b_heap = <<>> /\ b_local = NoLocals /\ b_log = <<>>
    /\ pipeline = <<>> /\ memory = <<>> /\ gens = <<>> /\ infs = <<>>
    /\ prims = <<>> /\ threaded = <<0, "None">> /\ op_i = 0 /\ ppc = "idle"
    /\ sq_orig = NoTorch /\ sq_t = NoTorch /\ sq_calls = <<>>
    /\ sq_error = NoError
    /\ ctx_unit = NoUnit /\ ctx_keys = {} /\ full_ctx = <<>> /\ ctxs = <<>>
    /\ ctx_pc = "idle"
    /\ apply_x = NoTorch /\ nvte_x = NoNvte /\ squished_now = FALSE
    /\ tensor_mess = <<>> /\ given = NoNvte /\ nvte_y = NoNvte
    /\ returned_prev = NoNvte /\ exposed_y = NoTorch /\ fctx = NoFlags
    /\ result = <<>> /\ n_units = 0 /\ loop_i = 0 /\ hpc = "idle"
    /\ unit \in Units
    /\ params \in [OpsOfAll(unit.fwds) -> 0..MaxParams]
    /\ inputs = <<>>
    /\ todo_bwds = <<>>
    /\ dy = NoTensor
    /\ full_grads = <<>>
    /\ outputs = <<>>
    /\ upc = "apply"
    \* no pipeline is being built and no call is made
    /\ fwds0 = <<>> /\ bwds0 = <<>> /\ fwds = <<>> /\ bwds = <<>>
    /\ functions = <<>> /\ used_forwards = <<>> /\ used_backwards = <<>>
    /\ unmatched_fwd_ops = {} /\ unmatched_bwd_ops = {}
    /\ forward = <<>> /\ backward = <<>> /\ pc = "returned"
    /\ calls = NoCalls /\ heap = <<>> /\ classGrad = None
    /\ _args = ArgsUnassigned

\* apply, lines 236-248: ComputePipelineFunction.forward is called
UnitForward ==
    /\ upc = "apply"
    /\ inputs' = ForwardInputs(unit)
    /\ upc' = "forwarded"
    /\ UNCHANGED <<unit, params, todo_bwds, dy, full_grads, outputs>>
    /\ UNCHANGED notUnit

\* ComputePipelineFunction.backward, line 185, enters
\* SelfContainedOp.backward, lines 30-46
UnitBackwardEnter ==
    /\ upc = "forwarded"
    /\ todo_bwds' = unit.bwds
    /\ dy' = DyAt(Len(unit.bwds))
    /\ full_grads' = <<>>
    /\ upc' = "backward"
    /\ UNCHANGED <<unit, params, inputs, outputs>>
    /\ UNCHANGED notUnit

\* SelfContainedOp.backward, lines 46-48: one iteration over the reversed
\* list of backward items
UnitBackwardItem ==
    /\ upc = "backward"
    /\ todo_bwds # <<>>
    /\ dy' = ItemDy(dy)
    /\ full_grads' = full_grads \o ItemGrads(Last(todo_bwds))
    /\ todo_bwds' = SubSeq(todo_bwds, 1, Len(todo_bwds) - 1)
    /\ UNCHANGED <<unit, params, inputs, outputs, upc>>
    /\ UNCHANGED notUnit

\* SelfContainedOp.backward returns, line 49, and
\* ComputePipelineFunction.backward returns, lines 199-206
UnitBackwardReturn ==
    /\ upc = "backward"
    /\ todo_bwds = <<>>
    /\ outputs' = BackwardOutputs(dy, full_grads)
    /\ upc' = "returned"
    /\ UNCHANGED <<unit, params, inputs, todo_bwds, dy, full_grads>>
    /\ UNCHANGED notUnit

NextUnit ==
    \/ UnitForward
    \/ UnitBackwardEnter
    \/ UnitBackwardItem
    \/ UnitBackwardReturn

(***************************************************************************)
(* Properties of the gradients a unit returns.                             *)
(***************************************************************************)
\* C10: the first value ComputePipelineFunction.backward returns is the
\* gradient of exposed_x, and the k-th value after it is the gradient of the
\* k-th parameter tensor passed to forward.
C10_GradsAligned ==
    upc = "returned" =>
        /\ outputs[1] = GradOf(inputs[1])
        /\ \A k \in 1..Len(SelfContainedArgs(unit)) :
              outputs[1 + k] = GradOf(inputs[1 + k])

\* the grads of the backward items after the first r, the last item first
GradsBehind(r) ==
    Flatten([i \in 1..(Len(unit.bwds) - r) |->
                ItemGrads(unit.bwds[Len(unit.bwds) + 1 - i])])

\* C27: SelfContainedOp.backward runs the backward items from the last to
\* the first.  With r items still to run these are the first r of the list,
\* the gradient in hand is the unit's incoming gradient when r is the length
\* of the list and else the data gradient item r + 1 returned, and
\* full_grads holds the grads of the items run, in the order they ran; it
\* returns the data gradient of the first item and the grads of all items
C27_BackwardThreadsGradient ==
    /\ upc = "backward" =>
          LET r == Len(todo_bwds) IN
            /\ todo_bwds = SubSeq(unit.bwds, 1, r)
            /\ dy = DyAt(r)
            /\ full_grads = GradsBehind(r)
    /\ upc = "returned" =>
          /\ dy = DyAt(0)
          /\ full_grads = GradsBehind(0)
          /\ outputs[1] = dy
          /\ Range(full_grads) =
                UNION {Range(ItemGrads(unit.bwds[i])) : i \in DOMAIN unit.bwds}

\* a unit of three backward items, the first and the last with parameters,
\* has run its backward
C27_Witness ==
    /\ upc = "returned"
    /\ Len(unit.bwds) >= 3
    /\ ItemGrads(unit.bwds[1]) # <<>>
    /\ ItemGrads(Last(unit.bwds)) # <<>>
    /\ dy = DyAt(0)

\* C37: ComputePipelineFunction.backward returns as many values as forward
\* received inputs after ctx: one for exposed_x, one for every parameter
\* tensor, and a None for each of the four tensors of the packed metadata
C37_OneGradPerInput ==
    upc = "returned" =>
        /\ Len(outputs) = Len(inputs)
        /\ Len(outputs) = 1 + Len(SelfContainedArgs(unit)) + Len(PackedMeta)
        /\ \A k \in 1..Len(PackedMeta) :
              outputs[1 + Len(SelfContainedArgs(unit)) + k] = NoTensor

(***************************************************************************)
(* Tensors, and the reinterpretation ("squish") of their storage:          *)
(* compute_pipeline_function.py lines 254-285.                             *)
(***************************************************************************)
\* the torch dtypes that occur: fp8 tensors have storage of dtype int8
Dtypes == {"int8", "float16", "bfloat16", "float32", "float64"}

\* bytes per element of a dtype
size_of(d) ==
    CASE d = "int8" -> 1
      [] d \in {"float16", "bfloat16"} -> 2
      [] d = "float32" -> 4
      [] d = "float64" -> 8

\* a torch.Tensor: its storage, and the dtype and element count under
\* which this tensor object presents it
TorchTensor(storage, dtype, numel) ==
    [storage |-> storage, dtype |-> dtype, numel |-> numel]

\* torch.Tensor().cuda()
EmptyTensor == TorchTensor(<<"empty", 0>>, "float32", 0)

\* nvte.Tensor(data, amax, scale, scale_inv), lines 79 and 250
NvteTensor(a) ==
    [data |-> a[1], amax |-> a[2], scale |-> a[3], scale_inv |-> a[4]]

\* nvte.make_nvte_tensor(t)
make_nvte_tensor(t) ==
    [data |-> t, amax |-> EmptyTensor, scale |-> EmptyTensor,
     scale_inv |-> EmptyTensor]

\* nvte.is_fp8 of a tensor with the given storage dtype
is_fp8(d) == d = "int8"

\* t.view(d): the same storage seen as dtype d; the bytes must divide into
\* whole elements of d
CanView(t, d) == (t.numel * size_of(t.dtype)) % size_of(d) = 0

View(t, d) ==
    TorchTensor(t.storage, d, (t.numel * size_of(t.dtype)) \div size_of(d))

SQUISH_TABLE ==
    [d \in {"int8", "bfloat16", "float32"} |->
        CASE d = "int8" -> "float16"
          [] d = "bfloat16" -> "float32"
          [] d = "float32" -> "float64"]

\* mutant: every squished dtype is taken back to int8
UnsquishToInt8 ==
    [v \in {SQUISH_TABLE[k] : k \in DOMAIN SQUISH_TABLE} |-> "int8"]

\* {v: k for k, v in SQUISH_TABLE.items()}
UNSQUISH_TABLE ==
    [v \in {SQUISH_TABLE[k] : k \in DOMAIN SQUISH_TABLE} |->
        CHOOSE k \in DOMAIN SQUISH_TABLE : SQUISH_TABLE[k] = v]

\* the outcome of a call that rebinds t.data: the tensor afterwards and the
\* exception raised, NoError when the call returns
Outcome(t, error) == [t |-> t, error |-> error]

\* t.data = t.data.view(d): torch rejects a view that does not hold a whole
\* number of elements
Rebind(t, d) ==
    IF CanView(t, d) THEN Outcome(View(t, d), NoError)
    ELSE Outcome(t, Raised("RuntimeError", "self.size(-1) must be divisible"))

\* _squish(t), lines 281-285
_squish(t) ==
    IF t.dtype \in DOMAIN SQUISH_TABLE
    THEN Rebind(t, SQUISH_TABLE[t.dtype])
    ELSE Outcome(t, Raised("RuntimeError",
                           "Invalid dtype of gradient for FP8 tensor."))

\* _unsquish(t), lines 276-278: the assert of line 277 has no message
_unsquish(t) ==
    IF t.dtype \in DOMAIN UNSQUISH_TABLE
    THEN Rebind(t, UNSQUISH_TABLE[t.dtype])
    ELSE Outcome(t, Raised("AssertionError", ""))

(***************************************************************************)
(* The forward loop of apply: one training call, unit by unit.             *)
(***************************************************************************)
\* the last k elements of a sequence, s[-k:]
LastN(s, k) == SubSeq(s, Len(s) - k + 1, Len(s))

\* the dtypes of the input of a training call
InDtypes == {"float16", "bfloat16", "float32"}

\* the storage dtypes of what op.forward returns
OutDtypes == {"int8", "float16", "bfloat16", "float32"}

\* exposed_tensors of a unit with p parameter tensors, lines 236-242
ExposedTensors(p) == [k \in 1..p |-> TorchTensor(<<"param", k>>, "float32", 1)]

\* what op.forward of unit i returns when its data has dtype d, m elements
OpForward(i, d, m) ==
    [data |-> TorchTensor(<<"y", i>>, d, m),
     amax |-> TorchTensor(<<"amax", i>>, "float32", 1),
     scale |-> TorchTensor(<<"scale", i>>, "float32", 1),
     scale_inv |-> TorchTensor(<<"scale_inv", i>>, "float32", 1)]

\* get_exposed_y, lines 61-67: a clone of exposed_x whose data is nvte_y.data
get_exposed_y(x, y) == y.data

\* lines 131-141: exposed_y after the squish of an int8 result
ExposeOutcome(y) ==
    IF y.dtype = "int8" THEN _squish(y) ELSE Outcome(y, NoError)

\* mutant: the data handed on is that of the exposed tensor
ForwardResultExposed(ey, y) == <<ey, ey, y.amax, y.scale, y.scale_inv>>

\* line 151
ForwardResult(ey, y) == <<ey, y.data, y.amax, y.scale, y.scale_inv>>

InitHandoff ==
    /\ p_heap = <<>> /\ p_ops = <<>> /\ p_i = 0 /\ p_pc = "idle"
    /\ it_n = 0 /\ it_done = <<>>
    /\ g_n = 0 /\ g_m = 0 /\ g_x = NoTorch /\ g_nvte_x = NoNvte
    /\ g_fwd = <<>> /\ g_back = <<>> /\ g_slots = <<>> /\ g_i = 0
    /\ gpc = "idle"
    /\ f_mode = "" /\ f_cls = <<>> /\ f_patterns = {} /\ f_first = <<>>
    /\ f_list = <<>> /\ fpc = "idle"
    /\ s_op = <<>> /\ s_given = <<>> /\ s_last = <<>>
    /\ b_ops = <<>> /\ b_env = NoEnv
    /\ b_self = NoPipeline /\ bpc = "idle"
    /\ b_heap = <<>> /\ b_local = NoLocals /\ b_log = <<>>
    /\ pipeline = <<>> /\ memory = <<>> /\ gens = <<>> /\ infs = <<>>
    /\ prims = <<>> /\ threaded = <<0, "None">> /\ op_i = 0 /\ ppc = "idle"
    /\ sq_orig = NoTorch /\ sq_t = NoTorch /\ sq_calls = <<>>
    /\ sq_error = NoError
    /\ ctx_unit = NoUnit /\ ctx_keys = {} /\ full_ctx = <<>> /\ ctxs = <<>>
    /\ ctx_pc = "idle"
    /\ n_units \in 1..MaxUnits
    /\ \E d \in InDtypes, m \in 1..MaxNumel :
          apply_x = TorchTensor(<<"x", 0>>, d, m)
    /\ nvte_x = NoNvte /\ squished_now = FALSE /\ tensor_mess = <<>>
    /\ given = NoNvte /\ nvte_y = NoNvte /\ returned_prev = NoNvte
    /\ exposed_y = NoTorch /\ fctx = NoFlags /\ result = <<>>
    /\ loop_i = 0 /\ hpc = "apply"
    \* nothing else runs
    /\ fwds0 = <<>> /\ bwds0 = <<>> /\ fwds = <<>> /\ bwds = <<>>
    /\ functions = <<>> /\ used_forwards = <<>> /\ used_backwards = <<>>
    /\ unmatched_fwd_ops = {} /\ unmatched_bwd_ops = {}
    /\ forward = <<>> /\ backward = <<>> /\ pc = "returned"
    /\ calls = NoCalls /\ heap = <<>> /\ classGrad = None
    /\ _args = ArgsUnassigned
    /\ unit = NoUnit /\ params = <<>> /\ inputs = <<>> /\ todo_bwds = <<>>
    /\ dy = NoTensor /\ full_grads = <<>> /\ outputs = <<>> /\ upc = "idle"

\* apply, lines 209-216, with training=True
HandoffApply ==
    /\ hpc = "apply"
    /\ nvte_x' = make_nvte_tensor(apply_x)
    /\ hpc' = "loop"
    /\ UNCHANGED <<apply_x, squished_now, tensor_mess, given, nvte_y,
                   returned_prev, exposed_y, fctx, result, n_units, loop_i>>
    /\ UNCHANGED notHandoff

\* apply, lines 217-248: _args and the arguments of
\* ComputePipelineFunction.apply for unit i
HandoffCall ==
    /\ hpc = "loop"
    /\ squished_now' = IF loop_i = 0 THEN FALSE
                       ELSE apply_x.dtype # nvte_x.data.dtype
    /\ \E p \in 0..MaxParams :
          tensor_mess' = ExposedTensors(p) \o
              <<nvte_x.data, nvte_x.amax, nvte_x.scale, nvte_x.scale_inv>>
    /\ hpc' = "forward"
    /\ UNCHANGED <<apply_x, nvte_x, given, nvte_y, returned_prev, exposed_y,
                   fctx, result, n_units, loop_i>>
    /\ UNCHANGED notHandoff

\* ComputePipelineFunction.forward, lines 79-83: op.forward is given the
\* tensor rebuilt from the last four arguments
HandoffOpForward ==
    /\ hpc = "forward"
    /\ given' = NvteTensor(LastN(tensor_mess, 4))
    /\ returned_prev' = nvte_y
    /\ \E d \in OutDtypes, m \in 1..MaxNumel : nvte_y' = OpForward(loop_i, d, m)
    /\ hpc' = "expose"
    /\ UNCHANGED <<apply_x, nvte_x, squished_now, tensor_mess, exposed_y,
                   fctx, result, n_units, loop_i>>
    /\ UNCHANGED notHandoff

\* ComputePipelineFunction.forward, lines 109-151
HandoffExpose ==
    /\ hpc = "expose"
    /\ LET o == ExposeOutcome(get_exposed_y(apply_x, nvte_y)) IN
         /\ o.error = NoError
         /\ exposed_y' = o.t
         /\ fctx' = [nvte_squish_outgoing_dgrad |-> squished_now,
                     nvte_unsquish_incoming_dgrad |-> nvte_y.data.dtype = "int8"]
         /\ result' = ForwardResult(o.t, nvte_y)
    /\ hpc' = "unpack"
    /\ UNCHANGED <<apply_x, nvte_x, squished_now, tensor_mess, given, nvte_y,
                   returned_prev, n_units, loop_i>>
    /\ UNCHANGED notHandoff

\* line 133: _squish(exposed_y) raises
HandoffExposeRaises ==
    /\ hpc = "expose"
    /\ LET o == ExposeOutcome(get_exposed_y(apply_x, nvte_y)) IN
         /\ o.error # NoError
         /\ exposed_y' = o.t
    /\ fctx' = [nvte_squish_outgoing_dgrad |-> squished_now,
                nvte_unsquish_incoming_dgrad |-> FALSE]
    /\ hpc' = "raised"
    /\ UNCHANGED <<apply_x, nvte_x, squished_now, tensor_mess, given, nvte_y,
                   returned_prev, result, n_units, loop_i>>
    /\ UNCHANGED notHandoff

\* apply, lines 244-251
HandoffUnpack ==
    /\ hpc = "unpack"
    /\ apply_x' = result[1]
    /\ nvte_x' = NvteTensor(SubSeq(result, 2, 5))
    /\ loop_i' = loop_i + 1
    /\ hpc' = IF loop_i + 1 = n_units THEN "returned" ELSE "loop"
    /\ UNCHANGED <<squished_now, tensor_mess, given, nvte_y, returned_prev,
                   exposed_y, fctx, result, n_units>>
    /\ UNCHANGED notHandoff

NextHandoff ==
    \/ HandoffApply
    \/ HandoffCall
    \/ HandoffOpForward
    \/ HandoffExpose
    \/ HandoffExposeRaises
    \/ HandoffUnpack

(***************************************************************************)
(* Properties of the unit boundary.                                        *)
(***************************************************************************)
\* the number of calls of op.forward made so far in the training call
OpForwardCalls == IF hpc \in {"expose", "unpack", "raised"} THEN loop_i + 1 ELSE loop_i

\* C11: across every unit boundary of a training call, the tensor given to
\* the next unit's op.forward has the data, amax, scale and scale_inv of the
\* tensor the unit before returned from op.forward, whether or not the
\* exposed tensor was squished.
C11_MetaPassedThrough ==
    OpForwardCalls >= 2 =>
        /\ given.data = returned_prev.data
        /\ given.amax = returned_prev.amax
        /\ given.scale = returned_prev.scale
        /\ given.scale_inv = returned_prev.scale_inv

C11_Witness ==
    /\ OpForwardCalls >= 2
    /\ returned_prev.data.dtype = "int8"
    /\ apply_x.dtype = "float16"
    /\ squished_now
    /\ given.data.storage = <<"y", loop_i - 1>>
    /\ given.data.dtype = "int8"


(***************************************************************************)
(* Contexts of a unit: SelfContainedOp.forward merges the contexts of its  *)
(* forward items, SelfContainedOp.backward splits the merged context among *)
(* its backward items (compute_pipeline.py lines 20-43).  A string is the  *)
(* sequence of its characters.                                             *)
(***************************************************************************)
Digit(d) ==
    CASE d = 0 -> "0" [] d = 1 -> "1" [] d = 2 -> "2" [] d = 3 -> "3"
      [] d = 4 -> "4" [] d = 5 -> "5" [] d = 6 -> "6" [] d = 7 -> "7"
      [] d = 8 -> "8" [] d = 9 -> "9"

\* f"{i}": the decimal digits of i
RECURSIVE Str(_)
Str(i) == IF i < 10 THEN <<Digit(i)>> ELSE Str(i \div 10) \o <<Digit(i % 10)>>

\* op.__class__.__name__ of op k
ClassName(k) == IF k % 2 = 0 THEN <<"A">> ELSE <<"B", "0">>

\* mutant: the name is the index alone
IndexAsName(k) == Str(k - 1)

\* name_ops, lines 69-71: op k is the k-th of the list, enumerate gives k-1
name_ops(k) == Str(k - 1) \o <<"(">> \o ClassName(k) \o <<")">>

\* name.startswith(p)
startswith(name, p) == Len(p) <= Len(name) /\ SubSeq(name, 1, Len(p)) = p

\* the context op k's forward returns: keys ctx_keys, the tensor under key
\* says which op saved it
OpCtx(k, keys) == [key \in keys |-> <<k, key>>]

\* line 26: {op_name + name: tensor for name, tensor in ctx.items()}
Prefixed(op_name, ctx) ==
    [nk \in {op_name \o name : name \in DOMAIN ctx} |->
        ctx[CHOOSE name \in DOMAIN ctx : op_name \o name = nk]]

\* a |= b
Merge(a, b) ==
    [k \in DOMAIN a \cup DOMAIN b |-> IF k \in DOMAIN b THEN b[k] ELSE a[k]]

\* the context FusedOp.forward returns: already namespaced by the names of
\* its members
RECURSIVE FusedCtx(_, _)
FusedCtx(S, keys) ==
    IF S = {} THEN <<>>
    ELSE LET k == CHOOSE m \in S : \A o \in S : m <= o IN
         Merge(Prefixed(name_ops(k), OpCtx(k, keys)), FusedCtx(S \ {k}, keys))

\* lines 23-26: the context of one forward item, as merged into full_ctx
ItemCtx(item, keys) ==
    IF item.fused THEN FusedCtx(item.ops, keys)
    ELSE Prefixed(name_ops(item.id), OpCtx(item.id, keys))

\* SelfContainedOp.forward, lines 20-28: full_ctx after the items of fs
RECURSIVE ForwardCtx(_, _, _)
ForwardCtx(fs, keys, acc) ==
    IF fs = <<>> THEN acc
    ELSE ForwardCtx(Tail(fs), keys, Merge(acc, ItemCtx(Head(fs), keys)))

\* lines 38-42: the entries whose key starts with op_name, the name cut off
Stripped(op_name, ctx) ==
    [name \in {SubSeq(nk, Len(op_name) + 1, Len(nk)) :
                   nk \in {n \in DOMAIN ctx : startswith(n, op_name)}} |->
        ctx[op_name \o name]]

\* SelfContainedOp.backward, lines 31-43: ctxs
BackwardCtxs(bs, ctx) ==
    [j \in DOMAIN bs |->
        IF bs[j].fused THEN ctx ELSE Stripped(name_ops(bs[j].id), ctx)]

\* the keys under which an op.forward saves tensors
KeyNames == {<<"x">>, <<"0", "(", "A", ")", "x">>}

\* lists over the ops lo..hi in list order with at most one FusedOp
OneRun(lo, hi) ==
    {[k \in 1..(hi - lo + 1) |-> ElementaryOp(lo + k - 1)]} \cup
    {[k \in 1..(hi - lo + 1 - (r[2] - r[1])) |->
         IF lo + k - 1 < r[1] THEN ElementaryOp(lo + k - 1)
         ELSE IF lo + k - 1 = r[1] THEN FusedOp(r[1]..r[2])
         ELSE ElementaryOp(lo + k - 1 + (r[2] - r[1]))] :
       r \in {q \in (lo..hi) \X (lo..hi) : q[1] < q[2]}}

InitCtx ==
    /\ p_heap = <<>> /\ p_ops = <<>> /\ p_i = 0 /\ p_pc = "idle"
    /\ it_n = 0 /\ it_done = <<>>
    /\ g_n = 0 /\ g_m = 0 /\ g_x = NoTorch /\ g_nvte_x = NoNvte
    /\ g_fwd = <<>> /\ g_back = <<>> /\ g_slots = <<>> /\ g_i = 0
    /\ gpc = "idle"
    /\ f_mode = "" /\ f_cls = <<>> /\ f_patterns = {} /\ f_first = <<>>
    /\ f_list = <<>> /\ fpc = "idle"
    /\ s_op = <<>> /\ s_given = <<>> /\ s_last = <<>>
    /\ b_ops = <<>> /\ b_env = NoEnv
    /\ b_self = NoPipeline /\ bpc = "idle"
    /\ b_heap = <<>> /\ b_local = NoLocals /\ b_log = <<>>
    /\ pipeline = <<>> /\ memory = <<>> /\ gens = <<>> /\ infs = <<>>
    /\ prims = <<>> /\ threaded = <<0, "None">> /\ op_i = 0 /\ ppc = "idle"
    /\ sq_orig = NoTorch /\ sq_t = NoTorch /\ sq_calls = <<>>
    /\ sq_error = NoError
    /\ \E lo \in 1..NNamed, hi \in 1..NNamed :
          /\ lo <= hi
          /\ \E f \in OneRun(lo, hi), b \in OneRun(lo, hi) :
                ctx_unit = SelfContainedOp(f, b)
    /\ ctx_keys \in (SUBSET KeyNames) \ {{}}
    /\ full_ctx = <<>>
    /\ ctxs = <<>>
    /\ ctx_pc = "forward"
    \* nothing else runs
    /\ fwds0 = <<>> /\ bwds0 = <<>> /\ fwds = <<>> /\ bwds = <<>>
    /\ functions = <<>> /\ used_forwards = <<>> /\ used_backwards = <<>>
    /\ unmatched_fwd_ops = {} /\ unmatched_bwd_ops = {}
    /\ forward = <<>> /\ backward = <<>> /\ pc = "returned"
    /\ calls = NoCalls /\ heap = <<>> /\ classGrad = None
    /\ _args = ArgsUnassigned
    /\ unit = NoUnit /\ params = <<>> /\ inputs = <<>> /\ todo_bwds = <<>>
    /\ dy = NoTensor /\ full_grads = <<>> /\ outputs = <<>> /\ upc = "idle"
    /\ apply_x = NoTorch /\ nvte_x = NoNvte /\ squished_now = FALSE
    /\ tensor_mess = <<>> /\ given = NoNvte /\ nvte_y = NoNvte
    /\ returned_prev = NoNvte /\ exposed_y = NoTorch /\ fctx = NoFlags
    /\ result = <<>> /\ n_units = 0 /\ loop_i = 0 /\ hpc = "idle"

\* SelfContainedOp.forward, lines 20-28
CtxForward ==
    /\ ctx_pc = "forward"
    /\ full_ctx' = ForwardCtx(ctx_unit.fwds, ctx_keys, <<>>)
    /\ ctx_pc' = "backward"
    /\ UNCHANGED <<ctx_unit, ctx_keys, ctxs>>
    /\ UNCHANGED notCtx

\* SelfContainedOp.backward, lines 30-43, on the context forward returned
CtxBackward ==
    /\ ctx_pc = "backward"
    /\ ctxs' = BackwardCtxs(ctx_unit.bwds, full_ctx)
    /\ ctx_pc' = "returned"
    /\ UNCHANGED <<ctx_unit, ctx_keys, full_ctx>>
    /\ UNCHANGED notCtx

NextCtx ==
    \/ CtxForward
    \/ CtxBackward

(***************************************************************************)
(* Properties of the contexts.                                             *)
(***************************************************************************)
\* the ops that are elementary in the forward list of the unit
ElementaryFwd == {it.id : it \in {i \in Range(ctx_unit.fwds) : ~i.fused}}

\* C12: an operation that is elementary in the forward and in the backward
\* list of a unit is passed by SelfContainedOp.backward exactly the context
\* its forward returned; in the merged context no two elementary operations
\* share a key and every entry of an elementary operation is the one it saved.
C12_CtxRoundTrip ==
    /\ ctx_pc = "returned" =>
          \A j \in DOMAIN ctx_unit.bwds :
             LET op == ctx_unit.bwds[j] IN
             (~op.fused /\ op.id \in ElementaryFwd) =>
                 ctxs[j] = OpCtx(op.id, ctx_keys)
    /\ ctx_pc \in {"backward", "returned"} =>
          /\ \A a \in ElementaryFwd, b \in ElementaryFwd :
                \A ka \in ctx_keys, kb \in ctx_keys :
                   name_ops(a) \o ka = name_ops(b) \o kb => a = b /\ ka = kb
          /\ \A a \in ElementaryFwd : \A ka \in ctx_keys :
                /\ name_ops(a) \o ka \in DOMAIN full_ctx
                /\ full_ctx[name_ops(a) \o ka] = <<a, ka>>

\* ops 2 and 11 are named "1(...)" and "10(...)"
C12_Witness ==
    /\ ctx_pc = "returned"
    /\ {2, 11} \subseteq ElementaryFwd
    /\ \E j \in DOMAIN ctx_unit.bwds :
          /\ ctx_unit.bwds[j] = ElementaryOp(2)
          /\ ctxs[j] = OpCtx(2, ctx_keys)
    /\ ctx_keys = KeyNames
    /\ \E it \in Range(ctx_unit.fwds) : it.fused


(***************************************************************************)
(* _squish and _unsquish called on one tensor.  Tensors are taken          *)
(* one-dimensional: numel is the size of the last dimension.               *)
(***************************************************************************)
\* the element counts tried: every ratio of element sizes divides some
SquishNumels == 1..(4 * MaxNumel)

InitSquish ==
    /\ p_heap = <<>> /\ p_ops = <<>> /\ p_i = 0 /\ p_pc = "idle"
    /\ it_n = 0 /\ it_done = <<>>
    /\ g_n = 0 /\ g_m = 0 /\ g_x = NoTorch /\ g_nvte_x = NoNvte
    /\ g_fwd = <<>> /\ g_back = <<>> /\ g_slots = <<>> /\ g_i = 0
    /\ gpc = "idle"
    /\ f_mode = "" /\ f_cls = <<>> /\ f_patterns = {} /\ f_first = <<>>
    /\ f_list = <<>> /\ fpc = "idle"
    /\ s_op = <<>> /\ s_given = <<>> /\ s_last = <<>>
    /\ b_ops = <<>> /\ b_env = NoEnv
    /\ b_self = NoPipeline /\ bpc = "idle"
    /\ b_heap = <<>> /\ b_local = NoLocals /\ b_log = <<>>
    /\ pipeline = <<>> /\ memory = <<>> /\ gens = <<>> /\ infs = <<>>
    /\ prims = <<>> /\ threaded = <<0, "None">> /\ op_i = 0 /\ ppc = "idle"
    /\ \E d \in Dtypes, m \in SquishNumels :
          sq_orig = TorchTensor(<<"t", 0>>, d, m)
    /\ sq_t = sq_orig
    /\ sq_calls = <<>>
    /\ sq_error = NoError
    \* nothing else runs
    /\ fwds0 = <<>> /\ bwds0 = <<>> /\ fwds = <<>> /\ bwds = <<>>
    /\ functions = <<>> /\ used_forwards = <<>> /\ used_backwards = <<>>
    /\ unmatched_fwd_ops = {} /\ unmatched_bwd_ops = {}
    /\ forward = <<>> /\ backward = <<>> /\ pc = "returned"
    /\ calls = NoCalls /\ heap = <<>> /\ classGrad = None
    /\ _args = ArgsUnassigned
    /\ unit = NoUnit /\ params = <<>> /\ inputs = <<>> /\ todo_bwds = <<>>
    /\ dy = NoTensor /\ full_grads = <<>> /\ outputs = <<>> /\ upc = "idle"
    /\ apply_x = NoTorch /\ nvte_x = NoNvte /\ squished_now = FALSE
    /\ tensor_mess = <<>> /\ given = NoNvte /\ nvte_y = NoNvte
    /\ returned_prev = NoNvte /\ exposed_y = NoTorch /\ fctx = NoFlags
    /\ result = <<>> /\ n_units = 0 /\ loop_i = 0 /\ hpc = "idle"
    /\ ctx_unit = NoUnit /\ ctx_keys = {} /\ full_ctx = <<>> /\ ctxs = <<>>
    /\ ctx_pc = "idle"

\* a further call can be made: the last one returned
CanCallSquish == sq_error = NoError /\ Len(sq_calls) < MaxSquishCalls

\* _squish(t)
SquishCall ==
    /\ CanCallSquish
    /\ sq_t' = _squish(sq_t).t
    /\ sq_error' = _squish(sq_t).error
    /\ sq_calls' = Append(sq_calls, "squish")
    /\ UNCHANGED sq_orig
    /\ UNCHANGED notSquish

\* _unsquish(t)
UnsquishCall ==
    /\ CanCallSquish
    /\ sq_t' = _unsquish(sq_t).t
    /\ sq_error' = _unsquish(sq_t).error
    /\ sq_calls' = Append(sq_calls, "unsquish")
    /\ UNCHANGED sq_orig
    /\ UNCHANGED notSquish

NextSquish ==
    \/ SquishCall
    \/ UnsquishCall

(***************************************************************************)
(* Properties of _squish and _unsquish.                                    *)
(***************************************************************************)
\* bytes of the tensor as this tensor object presents it
NBytes(t) == t.numel * size_of(t.dtype)

Descriptive(error) == error # NoError /\ error.message # ""

\* C14: _squish of a tensor whose dtype is not in SQUISH_TABLE, and
\* _unsquish of a tensor whose dtype is not in UNSQUISH_TABLE, raise an
\* exception that carries a description and leave the tensor as it was.
C14_UnmappedDtypeFails ==
    /\ (sq_calls = <<"squish">> /\ sq_orig.dtype \notin DOMAIN SQUISH_TABLE) =>
          /\ Descriptive(sq_error)
          /\ sq_t = sq_orig
    /\ (sq_calls = <<"unsquish">>
           /\ sq_orig.dtype \notin DOMAIN UNSQUISH_TABLE) =>
          /\ Descriptive(sq_error)
          /\ sq_t = sq_orig

(***************************************************************************)
(* The operations of sequential_new/common_back/ops.py.                    *)
(*                                                                         *)
(* training(x) is a generator: it runs the forward primitives, suspends at *)
(* "grad = yield y", and when resumed runs the backward primitives and     *)
(* yields the input gradient.  inference(x) runs primitives and returns.   *)
(* A body is the list of its statements; a tensor is named as the body     *)
(* names it ("act" is self.act).  The scalar arguments of a primitive      *)
(* (eps, zero_centered_gamma, p, the distributed group) are attributes of  *)
(* the operation, the same on every call, and are left out.                *)
(*                                                                         *)
(* An operation is [cls, own_act, link]: its class; the condition its      *)
(* methods branch on, under which the result goes to self.act and not to x *)
(* (Transpose: input_shape # _act_shape(); LayerNorm, Gelu, Relu:          *)
(* output_type # input_type; Gemm: either; FALSE for the other classes);   *)
(* and, for the two markers of a Residual, the index of the other marker   *)
(* (begin.end, end.begin).                                                 *)
(***************************************************************************)
\* f.fn(ins..., outs...): the primitive writes the tensors outs
Call(fn, ins, outs) == [stmt |-> "call", fn |-> fn, ins |-> ins, outs |-> outs]

\* "grad = yield t" and "yield t": suspend handing out the tensor t
Yield(t) == [stmt |-> "yield", fn |-> "", ins |-> <<t>>, outs |-> <<>>]

\* "return t"
Return(t) == [stmt |-> "return", fn |-> "", ins |-> <<t>>, outs |-> <<>>]

\* every inference() returning its input untouched
InferenceSkipped(op) == <<Return("x")>>

\* Op.training of every class; ResidualBegin's "assert self.end is not None"
\* holds, for expand_for_sequential sets begin.end
training(op) ==
    CASE op.cls = "Identity" -> <<Yield("x"), Yield("grad")>>
      [] op.cls = "Transpose" /\ op.own_act ->
            <<Call("transpose", <<"x">>, <<"act">>), Yield("act"),
              Call("transpose", <<"grad">>, <<"x">>), Yield("x")>>
      [] op.cls = "Transpose" /\ ~op.own_act ->
            <<Call("transpose", <<"x">>, <<"x">>), Yield("x"),
              Call("transpose", <<"grad">>, <<"grad">>), Yield("grad")>>
      [] op.cls = "LayerNorm" ->
            <<Call("layer_norm", <<"x", "weight", "bias">>,
                   <<"act", "mu", "rsigma">>),
              Yield("act"),
              Call("dlayer_norm", <<"grad", "x", "weight", "mu", "rsigma">>,
                   <<"grad", "weight_grad", "bias_grad">>),
              Yield("grad")>>
      [] op.cls = "Gemm" ->
            <<Call("transpose", <<"weight">>, <<"weight_t">>),
              Call("gemm", <<"x", "weight">>, <<"act">>),
              Yield("act"),
              Call("gemm", <<"grad", "weight_t">>, <<"x">>),
              Call("gemm", <<"grad", "x_t">>, <<"weight_grad">>),
              Yield("x")>>
      [] op.cls = "Bias" ->
            <<Call("add", <<"x", "bias">>, <<"x">>), Yield("x"),
              Call("copy", <<"grad">>, <<"bias_grad">>), Yield("grad")>>
      [] op.cls = "ResidualBegin" ->
            <<Call("copy", <<"x">>, <<"fwd_residue">>), Yield("x"),
              Call("add", <<"end.bwd_residue", "grad">>,
                   <<"end.bwd_residue">>),
              Yield("end.bwd_residue")>>
      [] op.cls = "ResidualEnd" ->
            <<Call("add", <<"begin.fwd_residue", "x">>,
                   <<"begin.fwd_residue">>),
              Yield("begin.fwd_residue"),
              Call("copy", <<"grad">>, <<"bwd_residue">>), Yield("grad")>>
      [] op.cls = "Dropout" ->
            <<Call("dropout", <<"x">>, <<"x">>), Yield("x"),
              Call("dropout", <<"grad">>, <<"grad">>), Yield("grad")>>
      [] op.cls = "Gelu" ->
            <<Call("gelu", <<"x">>, <<"act">>), Yield("act"),
              Call("dgelu", <<"grad", "x">>, <<"grad">>), Yield("grad")>>
      [] op.cls = "Relu" ->
            <<Call("relu", <<"x">>, <<"act">>), Yield("act"),
              Call("drelu", <<"grad", "x">>, <<"grad">>), Yield("grad")>>
      [] op.cls = "Cast" ->
            <<Call("cast", <<"x">>, <<"act">>), Yield("act"),
              Call("cast", <<"grad">>, <<"x">>), Yield("x")>>
      [] op.cls = "Scatter" ->
            <<Call("scatter", <<"x">>, <<"act">>), Yield("act"),
              Call("gather", <<"grad">>, <<"x">>), Yield("x")>>
      [] op.cls = "ReduceScatter" ->
            <<Call("reduce_scatter", <<"x">>, <<"act">>), Yield("act"),
              Call("all_gather", <<"grad">>, <<"x">>), Yield("x")>>
      [] op.cls = "AllGather" ->
            <<Call("all_gather", <<"x">>, <<"act">>), Yield("act"),
              Call("reduce_scatter", <<"grad">>, <<"x">>), Yield("x")>>
      [] op.cls = "AllReduce" ->
            <<Call("all_reduce", <<"x">>, <<"act">>), Yield("act"),
              Yield("grad")>>

\* Op.inference of every class
inference(op) ==
    LET out == IF op.own_act THEN "act" ELSE "x"
    IN  CASE op.cls = "Identity" -> <<Return("x")>>
          [] op.cls = "Transpose" ->
                <<Call("transpose", <<"x">>, <<out>>), Return(out)>>
          [] op.cls = "LayerNorm" ->
                <<Call("layer_norm_inf", <<"x", "weight", "bias">>, <<out>>),
                  Return(out)>>
          [] op.cls = "Gemm" ->
                <<Call("gemm", <<"x", "weight">>, <<out>>), Return(out)>>
          [] op.cls = "Bias" ->
                <<Call("add", <<"x", "bias">>, <<"x">>), Return("x")>>
          [] op.cls = "ResidualBegin" ->
                <<Call("copy", <<"x">>, <<"fwd_residue">>), Return("x")>>
          [] op.cls = "ResidualEnd" ->
                <<Call("add", <<"begin.fwd_residue", "x">>,
                       <<"begin.fwd_residue">>),
                  Return("begin.fwd_residue")>>
          [] op.cls = "Dropout" ->
                <<Call("dropout", <<"x">>, <<"x">>), Return("x")>>
          [] op.cls = "Gelu" ->
                <<Call("gelu", <<"x">>, <<out>>), Return(out)>>
          [] op.cls = "Relu" ->
                <<Call("relu", <<"x">>, <<out>>), Return(out)>>
          [] op.cls = "Cast" ->
                <<Call("cast", <<"x">>, <<"act">>), Return("act")>>
          [] op.cls = "Scatter" ->
                <<Call("scatter", <<"x">>, <<"act">>), Return("act")>>
          [] op.cls = "ReduceScatter" ->
                <<Call("reduce_scatter", <<"x">>, <<"act">>), Return("act")>>
          [] op.cls = "AllGather" ->
                <<Call("all_gather", <<"x">>, <<"act">>), Return("act")>>
          [] op.cls = "AllReduce" ->
                <<Call("all_reduce", <<"x">>, <<"act">>), Return("act")>>

\* the operations a chain is made of, the Residual markers apart
\* (DotProductAttention defines neither training nor inference)
PlainOps ==
    [cls : {"Identity", "Transpose", "LayerNorm", "Gemm", "Bias", "Dropout",
            "Gelu", "Relu", "Cast", "Scatter", "ReduceScatter", "AllGather",
            "AllReduce"},
     own_act : {FALSE}, link : {0}]
    \union [cls : {"Transpose", "LayerNorm", "Gemm", "Gelu", "Relu"},
            own_act : {TRUE}, link : {0}]

\* Residual(*inner): begin, the inner operations, end; begin.end = end
expand_for_sequential(inner) ==
    <<[cls |-> "ResidualBegin", own_act |-> FALSE, link |-> Len(inner) + 2]>>
        \o inner \o <<[cls |-> "ResidualEnd", own_act |-> FALSE, link |-> 1]>>

\* the chains followed: up to MaxInner operations, bare or in a Residual
Chains ==
    LET inner == UNION {[1..n -> PlainOps] : n \in 0..MaxInner}
    IN  (inner \ {<<>>}) \union {expand_for_sequential(s) : s \in inner}

(***************************************************************************)
(* Tensors and their values.  A tensor is <<k, name>>: attribute name of   *)
(* operation k; <<0, "x">> is the input of the chain and <<0, "grad">> the *)
(* gradient of its output.  A value is a term: <<name, k>> is what a       *)
(* tensor holds before any primitive wrote it, <<fn, j, v1, ...>> is the   *)
(* j-th output of primitive fn on the values v1, ...                       *)
(***************************************************************************)
\* the name grad before the generator is resumed
Unbound == <<0, "None">>

NoValue == <<"None", 0>>

\* the tensors of a chain: its input, the gradient of its output, and for
\* every operation the attributes its methods name
Tensors(chain) ==
    LET stmts(op) == Range(training(op)) \union Range(inference(op))
        named(op) == UNION {Range(s.ins) \union Range(s.outs) : s \in stmts(op)}
        attrs(op) == named(op) \ {"x", "grad", "begin.fwd_residue",
                                  "end.bwd_residue"}
    IN  {<<0, "x">>, <<0, "grad">>}
        \union UNION {{<<k, a>> : a \in attrs(chain[k])} : k \in DOMAIN chain}

\* the values before a run: the same for the inference and the training run
Fresh(chain) == [t \in Tensors(chain) |-> <<t[2], t[1]>>]

\* the computation a primitive performs on its first output: layer_norm_inf
\* normalises as layer_norm does and does not write mu and rsigma
Computes(fn) == IF fn = "layer_norm_inf" THEN "layer_norm" ELSE fn

\* what a primitive writes to its j-th output, given the values it reads
Result(fn, j, vals) ==
    IF fn = "copy" THEN vals[1] ELSE <<Computes(fn), j>> \o vals

\* fwd_residue being the very tensor the chain was given
ResolveResidueAsInput(k, env, t) ==
    CASE t = "x" -> env.x
      [] t = "grad" -> env.grad
      [] t \in {"fwd_residue", "begin.fwd_residue"} -> <<0, "x">>
      [] t = "end.bwd_residue" -> <<pipeline[k].link, "bwd_residue">>
      [] OTHER -> <<k, t>>

\* end.bwd_residue being the very tensor the generator was resumed with
ResolveResidueAsGrad(k, env, t) ==
    CASE t = "x" -> env.x
      [] t = "grad" -> env.grad
      [] t = "begin.fwd_residue" -> <<pipeline[k].link, "fwd_residue">>
      [] t = "end.bwd_residue" -> env.grad
      [] OTHER -> <<k, t>>

\* mutant: the markers' copies into fwd_residue and bwd_residue are lost, so
\* the sums are added to what the buffers held
ResolveResidueKept(k, env, t) ==
    CASE t = "x" -> env.x
      [] t = "grad" -> env.grad
      [] t = "begin.fwd_residue" -> <<pipeline[k].link, "fwd_residue">>
      [] t = "end.bwd_residue" -> <<pipeline[k].link, "bwd_residue">>
      [] t \in {"fwd_residue", "bwd_residue"} -> <<k, "None">>
      [] OTHER -> <<k, t>>

\* mutant: bwd_residue is bound to the tensor ResidualEnd was resumed with,
\* not a tensor of its own holding a copy
ResolveResidueBound(k, env, t) ==
    CASE t = "x" -> env.x
      [] t = "grad" -> env.grad
      [] t = "begin.fwd_residue" -> <<pipeline[k].link, "fwd_residue">>
      [] t = "bwd_residue" -> env.grad
      [] t = "end.bwd_residue" -> gens[pipeline[k].link].grad
      [] OTHER -> <<k, t>>

\* the tensor a name of the body of operation k denotes; env binds x, grad
Resolve(k, env, t) ==
    CASE t = "x" -> env.x
      [] t = "grad" -> env.grad
      [] t = "begin.fwd_residue" -> <<pipeline[k].link, "fwd_residue">>
      [] t = "end.bwd_residue" -> <<pipeline[k].link, "bwd_residue">>
      [] OTHER -> <<k, t>>

\* v occurs in the term t
RECURSIVE Sub(_, _)
Sub(t, v) == t = v \/ (Len(t) > 2 /\ \E j \in 3..Len(t) : Sub(t[j], v))

\* Run body from statement ip on to the next yield or return: the values
\* after it, the primitive calls made, where it stopped and what it hands out
RECURSIVE Run(_, _, _, _, _, _, _)
Run(body, ip, k, env, tag, m, made) ==
    LET s == body[ip]
        vals == [j \in DOMAIN s.ins |-> m[Resolve(k, env, s.ins[j])]]
        outs == [j \in DOMAIN s.outs |-> Resolve(k, env, s.outs[j])]
        call == [op |-> k, run |-> tag.run, resumed |-> tag.resumed,
                 fn |-> s.fn, ins |-> vals, outs |-> outs]
        after == [t \in DOMAIN m |->
                     IF t \in Range(outs)
                     THEN Result(s.fn, CHOOSE j \in DOMAIN outs : outs[j] = t,
                                 vals)
                     ELSE m[t]]
    IN  IF s.stmt = "call"
        THEN Run(body, ip + 1, k, env, tag, after, Append(made, call))
        ELSE [ip |-> ip, mem |-> m, made |-> made,
              tensor |-> Resolve(k, env, s.ins[1])]

\* a resumed generator starting its body over
RestartAt(ip) == 1

\* a generator suspended at statement ip resumes at the statement after it
ResumeAt(ip) == ip + 1

(***************************************************************************)
(* A chain of operations, run for inference and then for training on the   *)
(* same input and the same parameter values.  Inference threads x through  *)
(* op.inference as run_inference does; training threads x through the     *)
(* forward half of every op.training in the same order, as the forward     *)
(* phase does, then the gradient through the generators in reverse order.  *)
(* The two runs have their own values, so neither sees what the other      *)
(* wrote.                                                                  *)
(***************************************************************************)
\* gen = op.training(x): nothing of the body has run
Created(x, v) ==
    [state |-> "created", ip |-> 0, x |-> x, x_value |-> v,
     y |-> Unbound, y_value |-> NoValue, grad |-> Unbound,
     grad_value |-> NoValue, dx |-> Unbound, dx_value |-> NoValue]

InitOps ==
    /\ p_heap = <<>> /\ p_ops = <<>> /\ p_i = 0 /\ p_pc = "idle"
    /\ it_n = 0 /\ it_done = <<>>
    /\ g_n = 0 /\ g_m = 0 /\ g_x = NoTorch /\ g_nvte_x = NoNvte
    /\ g_fwd = <<>> /\ g_back = <<>> /\ g_slots = <<>> /\ g_i = 0
    /\ gpc = "idle"
    /\ f_mode = "" /\ f_cls = <<>> /\ f_patterns = {} /\ f_first = <<>>
    /\ f_list = <<>> /\ fpc = "idle"
    /\ s_op = <<>> /\ s_given = <<>> /\ s_last = <<>>
    /\ b_ops = <<>> /\ b_env = NoEnv
    /\ b_self = NoPipeline /\ bpc = "idle"
    /\ b_heap = <<>> /\ b_local = NoLocals /\ b_log = <<>>
    /\ pipeline \in Chains
    /\ memory = [inference |-> Fresh(pipeline), training |-> Fresh(pipeline)]
    /\ gens = <<>>
    /\ infs = <<>>
    /\ prims = <<>>
    /\ threaded = <<0, "x">>
    /\ op_i = 1
    /\ ppc = "inference"
    \* nothing else runs
    /\ fwds0 = <<>> /\ bwds0 = <<>> /\ fwds = <<>> /\ bwds = <<>>
    /\ functions = <<>> /\ used_forwards = <<>> /\ used_backwards = <<>>
    /\ unmatched_fwd_ops = {} /\ unmatched_bwd_ops = {}
    /\ forward = <<>> /\ backward = <<>> /\ pc = "returned"
    /\ calls = NoCalls /\ heap = <<>> /\ classGrad = None
    /\ _args = ArgsUnassigned
    /\ unit = NoUnit /\ params = <<>> /\ inputs = <<>> /\ todo_bwds = <<>>
    /\ dy = NoTensor /\ full_grads = <<>> /\ outputs = <<>> /\ upc = "idle"
    /\ apply_x = NoTorch /\ nvte_x = NoNvte /\ squished_now = FALSE
    /\ tensor_mess = <<>> /\ given = NoNvte /\ nvte_y = NoNvte
    /\ returned_prev = NoNvte /\ exposed_y = NoTorch /\ fctx = NoFlags
    /\ result = <<>> /\ n_units = 0 /\ loop_i = 0 /\ hpc = "idle"
    /\ ctx_unit = NoUnit /\ ctx_keys = {} /\ full_ctx = <<>> /\ ctxs = <<>>
    /\ ctx_pc = "idle"
    /\ sq_orig = NoTorch /\ sq_t = NoTorch /\ sq_calls = <<>>
    /\ sq_error = NoError

\* run_inference: x = op.inference(x); after the last operation the
\* training run starts from the same input
OpInference ==
    /\ ppc = "inference"
    /\ LET r == Run(inference(pipeline[op_i]), 1, op_i,
                    [x |-> threaded, grad |-> Unbound],
                    [run |-> "inference", resumed |-> FALSE],
                    memory.inference, prims)
       IN  /\ memory' = [memory EXCEPT !.inference = r.mem]
           /\ prims' = r.made
           /\ infs' = Append(infs,
                  [x |-> threaded, x_value |-> memory.inference[threaded],
                   y |-> r.tensor, y_value |-> r.mem[r.tensor]])
           /\ IF op_i < Len(pipeline)
              THEN /\ threaded' = r.tensor
                   /\ op_i' = op_i + 1
                   /\ ppc' = ppc
              ELSE /\ threaded' = <<0, "x">>
                   /\ op_i' = 1
                   /\ ppc' = "forward"
    /\ UNCHANGED <<pipeline, gens>>
    /\ UNCHANGED notOps

\* gen = op.training(x): calling a generator function runs none of its body
OpTraining ==
    /\ ppc = "forward"
    /\ Len(gens) = op_i - 1
    /\ gens' = Append(gens, Created(threaded, memory.training[threaded]))
    /\ UNCHANGED <<pipeline, memory, infs, prims, threaded, op_i, ppc>>
    /\ UNCHANGED notOps

\* next(gen): the body runs up to "grad = yield y"; y is threaded on, and
\* after the last operation the gradient of the output comes back
GenNext ==
    /\ ppc = "forward"
    /\ Len(gens) = op_i
    /\ LET g == gens[op_i]
           r == Run(training(pipeline[op_i]), 1, op_i,
                    [x |-> g.x, grad |-> Unbound],
                    [run |-> "training", resumed |-> FALSE],
                    memory.training, prims)
       IN  /\ memory' = [memory EXCEPT !.training = r.mem]
           /\ prims' = r.made
           /\ gens' = [gens EXCEPT ![op_i] =
                  [g EXCEPT !.state = "suspended", !.ip = r.ip,
                            !.y = r.tensor, !.y_value = r.mem[r.tensor]]]
           /\ IF op_i < Len(pipeline)
              THEN /\ threaded' = r.tensor
                   /\ op_i' = op_i + 1
                   /\ ppc' = ppc
              ELSE /\ threaded' = <<0, "grad">>
                   /\ op_i' = op_i
                   /\ ppc' = "backward"
    /\ UNCHANGED <<pipeline, infs>>
    /\ UNCHANGED notOps

\* gen.send(grad): the yield expression evaluates to grad and the body
\* runs on from the statement after it, up to the second yield
GenSend ==
    /\ ppc = "backward"
    /\ LET g == gens[op_i]
           r == Run(training(pipeline[op_i]), ResumeAt(g.ip), op_i,
                    [x |-> g.x, grad |-> threaded],
                    [run |-> "training", resumed |-> TRUE],
                    memory.training, prims)
       IN  /\ memory' = [memory EXCEPT !.training = r.mem]
           /\ prims' = r.made
           /\ gens' = [gens EXCEPT ![op_i] =
                  [g EXCEPT !.state = "finished", !.ip = r.ip,
                            !.grad = threaded,
                            !.grad_value = memory.training[threaded],
                            !.dx = r.tensor, !.dx_value = r.mem[r.tensor]]]
           /\ threaded' = r.tensor
           /\ IF op_i > 1
              THEN op_i' = op_i - 1 /\ ppc' = ppc
              ELSE op_i' = op_i /\ ppc' = "done"
    /\ UNCHANGED <<pipeline, infs>>
    /\ UNCHANGED notOps

NextOps ==
    \/ OpInference
    \/ OpTraining
    \/ GenNext
    \/ GenSend

\* the primitive calls operation k made in the training run: before the
\* suspend point (resumed = FALSE) and after being resumed
Made(k, resumed) ==
    SelectSeq(prims, LAMBDA c : /\ c.op = k /\ c.run = "training"
                                /\ c.resumed = resumed)

\* the primitive calls a body makes before its first yield
ForwardHalf(body) ==
    LET first == CHOOSE i \in DOMAIN body :
                    /\ body[i].stmt = "yield"
                    /\ \A j \in 1..(i - 1) : body[j].stmt = "call"
    IN  SubSeq(body, 1, first - 1)

\* C16: every operation's training protocol performs its forward primitives
\* exactly once, before the suspend point that yields the forward result;
\* resumed with a gradient it performs only backward primitives, each on
\* exactly the value it was resumed with, never a forward primitive again,
\* and then yields the input gradient computed from that value
C16_TrainingProtocol ==
    \A k \in DOMAIN gens :
        LET g == gens[k]
            fwd == ForwardHalf(training(pipeline[k]))
            before == Made(k, FALSE)
            after == Made(k, TRUE)
        IN  /\ g.state = "created" => before = <<>> /\ after = <<>>
            /\ g.state \in {"suspended", "finished"} =>
                  /\ Len(before) = Len(fwd)
                  /\ \A i \in DOMAIN fwd : before[i].fn = fwd[i].fn
                  /\ g.y # Unbound
            /\ g.state = "suspended" => after = <<>>
            /\ g.state = "finished" =>
                  /\ \A i \in DOMAIN after :
                        /\ g.grad_value \in Range(after[i].ins)
                        /\ \A j \in DOMAIN before :
                              ~(/\ after[i].fn = before[j].fn
                                /\ after[i].ins = before[j].ins)
                  /\ g.dx # Unbound
                  /\ Sub(g.dx_value, g.grad_value)

\* an operation that ran forward primitives, was resumed and ran backward
\* primitives: a Gemm behind an operation that works in place
C16_Witness ==
    \E k \in DOMAIN gens :
        /\ gens[k].state = "finished"
        /\ pipeline[k].cls = "Gemm"
        /\ Len(Made(k, FALSE)) = 2
        /\ Len(Made(k, TRUE)) = 2
        /\ k > 1
        /\ pipeline[k - 1].cls = "Dropout"
        /\ gens[k - 1].state = "finished"
        /\ gens[k - 1].grad = gens[k - 1].x

Residuals ==
    {r \in (DOMAIN pipeline) \X (DOMAIN pipeline) :
        /\ pipeline[r[1]].cls = "ResidualBegin"
        /\ pipeline[r[1]].link = r[2]}

\* C18: in a Residual, ResidualBegin caches its input in fwd_residue, and
\* ResidualEnd outputs the cached input plus its own input x, at inference
\* and in the forward phase of training, whatever the operations between the
\* markers did to the primary tensor
C18_ResidualForward ==
    \A r \in Residuals :
        LET b == r[1]
            e == r[2]
            began(k) == k \in DOMAIN gens /\ gens[k].state # "created"
        IN  /\ (b \in DOMAIN infs /\ e \notin DOMAIN infs) =>
                  memory.inference[<<b, "fwd_residue">>] = infs[b].x_value
            /\ e \in DOMAIN infs =>
                  infs[e].y_value
                      = <<"add", 1, infs[b].x_value, infs[e].x_value>>
            /\ (began(b) /\ ~began(e)) =>
                  memory.training[<<b, "fwd_residue">>] = gens[b].x_value
            /\ began(e) =>
                  gens[e].y_value
                      = <<"add", 1, gens[b].x_value, gens[e].x_value>>

\* ResidualEnd has run in both runs, after an operation between the markers
\* overwrote the very tensor ResidualBegin was given
C18_Witness ==
    \E r \in Residuals :
        /\ r[2] \in DOMAIN infs
        /\ r[2] \in DOMAIN gens
        /\ gens[r[2]].state = "suspended"
        /\ memory.inference[infs[r[1]].x] # infs[r[1]].x_value
        /\ memory.training[gens[r[1]].x] # gens[r[1]].x_value

\* C19 as stated: resumed, ResidualBegin yields the very gradient it was
\* resumed with, unchanged, and has accumulated it into bwd_residue
C19_BeginReturnsGradUnchanged ==
    \A r \in Residuals :
        (r[1] \in DOMAIN gens /\ gens[r[1]].state = "finished") =>
            /\ gens[r[1]].dx = gens[r[1]].grad
            /\ gens[r[1]].dx_value = gens[r[1]].grad_value
            /\ Sub(memory.training[<<r[2], "bwd_residue">>],
                   gens[r[1]].grad_value)

\* C19: in the backward phase of a Residual, ResidualEnd yields the gradient
\* it was resumed with, unchanged, having copied it into bwd_residue;
\* ResidualBegin adds the gradient it is resumed with into bwd_residue and
\* yields bwd_residue, the sum of the two
C19_ResidualBackward ==
    \A r \in Residuals :
        LET b == gens[r[1]]
            e == gens[r[2]]
            bwd_residue == <<r[2], "bwd_residue">>
        IN  (r[2] \in DOMAIN gens /\ e.state = "finished") =>
                /\ e.dx = e.grad
                /\ e.dx_value = e.grad_value
                /\ b.state # "finished" =>
                      memory.training[bwd_residue] = e.grad_value
                /\ b.state = "finished" =>
                      /\ b.dx = bwd_residue
                      /\ b.dx_value
                             = <<"add", 1, e.grad_value, b.grad_value>>
                      /\ memory.training[bwd_residue] = b.dx_value

\* both markers were resumed, and the operations between them changed the
\* gradient on its way from ResidualEnd to ResidualBegin
C19_Witness ==
    \E r \in Residuals :
        /\ r[1] \in DOMAIN gens
        /\ gens[r[1]].state = "finished"
        /\ gens[r[2]].state = "finished"
        /\ gens[r[1]].grad_value # gens[r[2]].grad_value
        /\ gens[r[1]].dx # gens[r[1]].grad

\* C31: in the backward phase of a Residual, ResidualEnd resumed before
\* ResidualBegin, what ResidualBegin yields holds the gradient ResidualEnd
\* was resumed with plus the gradient ResidualBegin was resumed with, and
\* only the two markers ever write bwd_residue: what the operations between
\* them do to the gradient they are handed does not reach it
C31_ResidualGradientSum ==
    \A r \in Residuals :
        /\ \A i \in DOMAIN prims :
              (prims[i].run = "training"
                  /\ <<r[2], "bwd_residue">> \in Range(prims[i].outs))
                 => prims[i].op \in {r[1], r[2]}
        /\ (r[1] \in DOMAIN gens /\ gens[r[1]].state = "finished") =>
              gens[r[1]].dx_value =
                  <<"add", 1, gens[r[2]].grad_value, gens[r[1]].grad_value>>

\* both markers were resumed, and by then the tensor ResidualEnd was resumed
\* with no longer holds the gradient it held: an operation between the
\* markers wrote its own result into it
C31_Witness ==
    \E r \in Residuals :
        /\ r[1] \in DOMAIN gens
        /\ gens[r[1]].state = "finished"
        /\ gens[r[2]].state = "finished"
        /\ memory.training[gens[r[2]].grad] # gens[r[2]].grad_value
        /\ gens[r[1]].grad = gens[r[2]].grad

\* describe_supplementary_tensors_training of every class: the names of the
\* tensors declared, every one with the initializer None
describe_supplementary_tensors_training(op) ==
    CASE op.cls \in {"Identity", "Bias", "Dropout"} -> {}
      [] op.cls = "Transpose" -> IF op.own_act THEN {"act"} ELSE {}
      [] op.cls = "LayerNorm" -> {"act", "mu", "rsigma"}
      [] op.cls = "Gemm" -> {"act", "weight_t", "x_t"}
      [] op.cls = "ResidualBegin" -> {"fwd_residue"}
      [] op.cls = "ResidualEnd" -> {"bwd_residue"}
      [] OTHER -> {"act"}

\* C36: in the training run, no primitive an operation calls reads one of
\* the operation's supplementary tensors while it holds what it held before
\* any primitive wrote it
C36_WrittenBeforeRead ==
    \A i \in DOMAIN prims :
        LET c == prims[i] IN
        c.run = "training" =>
            \A t \in describe_supplementary_tensors_training(pipeline[c.op]) :
                \A j \in DOMAIN c.ins : c.ins[j] # <<t, c.op>>

(***************************************************************************)
(* A Residual run for several training iterations: every iteration is a    *)
(* forward pass and a backward pass in reverse order over the same         *)
(* operations, so over the same fwd_residue and bwd_residue, which keep    *)
(* what the iteration before left in them.  The caller hands in a new      *)
(* input and a new gradient of the output each time: <<"x", n - 1>> and    *)
(* <<"grad", n - 1>> in iteration n.                                       *)
(***************************************************************************)
\* the values at the start of iteration n: as the iteration before left
\* them, but for the input and the gradient the caller hands in
HandedIn(m, n) ==
    [t \in DOMAIN m |->
        IF t \in {<<0, "x">>, <<0, "grad">>} THEN <<t[2], n - 1>> ELSE m[t]]

InitIter ==
    /\ p_heap = <<>> /\ p_ops = <<>> /\ p_i = 0 /\ p_pc = "idle"
    /\ pipeline \in {expand_for_sequential(s) :
                        s \in UNION {[1..n -> PlainOps] : n \in 0..MaxInner}}
    /\ memory = [inference |-> Fresh(pipeline), training |-> Fresh(pipeline)]
    /\ gens = <<>>
    /\ infs = <<>>
    /\ prims = <<>>
    /\ threaded = <<0, "x">>
    /\ op_i = 1
    /\ ppc = "forward"
    /\ it_n = 1
    /\ it_done = <<>>
    \* nothing else runs
    /\ g_n = 0 /\ g_m = 0 /\ g_x = NoTorch /\ g_nvte_x = NoNvte
    /\ g_fwd = <<>> /\ g_back = <<>> /\ g_slots = <<>> /\ g_i = 0
    /\ gpc = "idle"
    /\ f_mode = "" /\ f_cls = <<>> /\ f_patterns = {} /\ f_first = <<>>
    /\ f_list = <<>> /\ fpc = "idle"
    /\ s_op = <<>> /\ s_given = <<>> /\ s_last = <<>>
    /\ b_ops = <<>> /\ b_env = NoEnv
    /\ b_self = NoPipeline /\ bpc = "idle"
    /\ b_heap = <<>> /\ b_local = NoLocals /\ b_log = <<>>
    /\ fwds0 = <<>> /\ bwds0 = <<>> /\ fwds = <<>> /\ bwds = <<>>
    /\ functions = <<>> /\ used_forwards = <<>> /\ used_backwards = <<>>
    /\ unmatched_fwd_ops = {} /\ unmatched_bwd_ops = {}
    /\ forward = <<>> /\ backward = <<>> /\ pc = "returned"
    /\ calls = NoCalls /\ heap = <<>> /\ classGrad = None
    /\ _args = ArgsUnassigned
    /\ unit = NoUnit /\ params = <<>> /\ inputs = <<>> /\ todo_bwds = <<>>
    /\ dy = NoTensor /\ full_grads = <<>> /\ outputs = <<>> /\ upc = "idle"
    /\ apply_x = NoTorch /\ nvte_x = NoNvte /\ squished_now = FALSE
    /\ tensor_mess = <<>> /\ given = NoNvte /\ nvte_y = NoNvte
    /\ returned_prev = NoNvte /\ exposed_y = NoTorch /\ fctx = NoFlags
    /\ ctx_unit = NoUnit /\ ctx_keys = {} /\ full_ctx = <<>> /\ ctxs = <<>>
    /\ ctx_pc = "idle"
    /\ sq_orig = NoTorch /\ sq_t = NoTorch /\ sq_calls = <<>>
    /\ sq_error = NoError
    /\ result = <<>> /\ n_units = 0 /\ loop_i = 0 /\ hpc = "idle"

\* the next iteration: new generators over the same operations
NextIteration ==
    /\ ppc = "done"
    /\ it_n < MaxIterations
    /\ it_done' = Append(it_done, gens)
    /\ it_n' = it_n + 1
    /\ gens' = <<>>
    /\ memory' = [memory EXCEPT !.training = HandedIn(memory.training, it_n + 1)]
    /\ threaded' = <<0, "x">>
    /\ op_i' = 1
    /\ ppc' = "forward"
    /\ UNCHANGED <<pipeline, infs, prims>>
    /\ UNCHANGED notIter

NextIter ==
    \/ OpTraining
    \/ GenNext
    \/ GenSend
    \/ NextIteration

\* a value handed in, or a gradient handed in, in an iteration before the
\* current one occurs in the value v
FromBefore(v) ==
    \E j \in 0..(it_n - 2) : Sub(v, <<"x", j>>) \/ Sub(v, <<"grad", j>>)

\* C32: in every iteration ResidualEnd hands out the input of this
\* iteration plus what it received in this iteration, and ResidualBegin
\* yields the gradient handed in in this iteration plus the gradient it was
\* resumed with in this iteration; no input and no gradient of an earlier
\* iteration occurs in either
C32_NoCarryOver ==
    \A r \in Residuals :
        LET b == gens[r[1]]
            e == gens[r[2]]
        IN  /\ (r[2] \in DOMAIN gens /\ e.state # "created") =>
                  /\ b.x_value = <<"x", it_n - 1>>
                  /\ e.y_value = <<"add", 1, b.x_value, e.x_value>>
                  /\ ~FromBefore(e.y_value)
            /\ (r[1] \in DOMAIN gens /\ b.state = "finished") =>
                  /\ e.grad_value = <<"grad", it_n - 1>>
                  /\ b.dx_value = <<"add", 1, e.grad_value, b.grad_value>>
                  /\ ~FromBefore(b.dx_value)

\* the second iteration is through: fwd_residue and bwd_residue held the
\* sums of the first iteration when it began
C32_Witness ==
    /\ it_n = 2
    /\ ppc = "done"
    /\ Len(pipeline) >= 3
    /\ \E r \in Residuals :
          /\ it_done[1][r[1]].dx_value # gens[r[1]].dx_value
          /\ it_done[1][r[2]].y_value # gens[r[2]].y_value

(***************************************************************************)
(* ComputePipeline.__init__, step by step.                                 *)
(*                                                                         *)
(* Operations are objects: b_heap[a] is the object at address a, the       *)
(* dictionary of its attributes (attribute name, a string as a sequence of *)
(* characters, to the value it holds), and a list of operations is a       *)
(* sequence of addresses.  Every Op has input_type and output_type; Gemm   *)
(* and Bias keep the type of their parameters in param_dtype, LayerNorm in *)
(* param_type; weight refers to a parameter tensor.  name, which name_ops  *)
(* sets, holds no type and does not end in "_dtype".                       *)
(***************************************************************************)
\* the attribute names, character by character
Attr ==
    [input_type |-> <<"i", "n", "p", "u", "t", "_", "t", "y", "p", "e">>,
     output_type |-> <<"o", "u", "t", "p", "u", "t", "_", "t", "y", "p", "e">>,
     param_type |-> <<"p", "a", "r", "a", "m", "_", "t", "y", "p", "e">>,
     param_dtype |-> <<"p", "a", "r", "a", "m", "_", "d", "t", "y", "p", "e">>,
     weight |-> <<"w", "e", "i", "g", "h", "t">>,
     name |-> <<"n", "a", "m", "e">>]

\* the members of DType followed
DType == {"BFloat16", "Float8E4M3", "Float8E5M2"}

\* the types an attribute is created with
TypesAt(a) ==
    IF a = Attr.output_type THEN {"BFloat16", "Float8E5M2"}
    ELSE {"BFloat16", "Float8E4M3"}

\* the type attributes of an operation: with param_dtype (a Gemm) or with
\* param_type (a LayerNorm)
OpObjects ==
    UNION {{o \in [{Attr.input_type, Attr.output_type, p} -> DType] :
               \A a \in DOMAIN o : o[a] \in TypesAt(a)}
              : p \in {Attr.param_dtype, Attr.param_type}}

\* the parameter tensor the operation at address a was given
TensorRef(a) == <<"Tensor", a>>

\* an operation as the caller holds it: its types and its tensor
WithTensor(o, a) ==
    [x \in DOMAIN o \cup {Attr.weight} |->
        IF x = Attr.weight THEN TensorRef(a) ELSE o[x]]

\* is_fp8 of a DType
is_fp8_type(d) == d \in {"Float8E4M3", "Float8E5M2"}

\* attr.endswith(suffix)
endswith(attr, suffix) ==
    /\ Len(suffix) <= Len(attr)
    /\ SubSeq(attr, Len(attr) - Len(suffix) + 1, Len(attr)) = suffix

\* force_use_bf16 on the heap h: of every attribute dir(op) lists of the
\* operations ops, those named *_dtype that hold an fp8 DType are set to
\* BFloat16
force_use_bf16(h, ops) ==
    [a \in DOMAIN h |->
        IF a \in Range(ops)
        THEN [x \in DOMAIN h[a] |->
                 IF /\ endswith(x, <<"_", "d", "t", "y", "p", "e">>)
                    /\ h[a][x] \in DType
                    /\ is_fp8_type(h[a][x])
                 THEN "BFloat16"
                 ELSE h[a][x]]
        ELSE h[a]]

\* name_ops on the heap h: setattr(op, "name", f"{i}({class name})")
SetNames(h, ops) ==
    [a \in DOMAIN h |->
        IF a \in Range(ops)
        THEN LET i == CHOOSE j \in DOMAIN ops :
                          ops[j] = a /\ \A l \in DOMAIN ops : ops[l] = a => l <= j
             IN [x \in DOMAIN h[a] \cup {Attr.name} |->
                    IF x = Attr.name THEN name_ops(i) ELSE h[a][x]]
        ELSE h[a]]

\* mutant: the tensor is cloned like any other object
TensorCloned(t, fresh) == <<"Tensor", fresh>>

\* _nvte.Tensor.__deepcopy__ while copy_op_list runs: lambda self, memo: self
TensorDeepcopy(t, fresh) == t

\* mutant: the list is handed on as it is, no copy is made
CopyByReference(h, ops) == [heap |-> h, ops |-> ops]

\* copy_op_list: copy.deepcopy of the list.  Every operation is copied to a
\* new object (at the next free addresses, in list order) with the same
\* attributes; a tensor is copied by its __deepcopy__
copy_op_list(h, ops) ==
    LET n == Len(h)
        Copy(k) == [x \in DOMAIN h[ops[k]] |->
                       IF x = Attr.weight
                       THEN TensorDeepcopy(h[ops[k]][x], n + k)
                       ELSE h[ops[k]][x]]
    IN [heap |-> h \o [k \in DOMAIN ops |-> Copy(k)],
        ops |-> [k \in DOMAIN ops |-> n + k]]

\* split_into_self_contained from the position s on, run to its end: the
\* units it returns, or raised when it pops an exhausted list
RECURSIVE SplitFrom(_)
SplitFrom(s) ==
    CASE s.pc = "while_queues" ->
           IF s.fwds = <<>> /\ s.bwds = <<>>
           THEN [raised |-> FALSE, functions |-> s.functions]
           ELSE IF s.fwds = <<>>
           THEN [raised |-> TRUE, functions |-> <<>>]
           ELSE LET fwd == Head(s.fwds) IN
                SplitFrom([s EXCEPT !.fwds = PopLeft(s.fwds),
                                    !.uf = OpsOf(fwd), !.ub = {},
                                    !.used_forwards = <<fwd>>,
                                    !.used_backwards = <<>>,
                                    !.pc = AfterPopFwd(OpsOf(fwd), {})])
      [] s.pc = "while_fwd" ->
           IF s.bwds = <<>>
           THEN [raised |-> TRUE, functions |-> <<>>]
           ELSE LET bwd == Head(s.bwds)
                    uf == RemoveMatched(s.uf, OpsOf(bwd))
                    ub == AddUnmatched(s.ub, s.uf, OpsOf(bwd))
                IN SplitFrom([s EXCEPT
                       !.bwds = PopLeft(s.bwds),
                       !.used_backwards = ListAppend(s.used_backwards, bwd),
                       !.uf = uf, !.ub = ub, !.pc = AfterPopBwd(uf, ub)])
      [] s.pc = "while_bwd" ->
           IF s.fwds = <<>>
           THEN [raised |-> TRUE, functions |-> <<>>]
           ELSE LET fwd == Head(s.fwds)
                    ub == RemoveMatched(s.ub, OpsOf(fwd))
                    uf == AddUnmatched(s.uf, s.ub, OpsOf(fwd))
                IN SplitFrom([s EXCEPT
                       !.fwds = PopLeft(s.fwds),
                       !.used_forwards = ListAppend(s.used_forwards, fwd),
                       !.uf = uf, !.ub = ub, !.pc = AfterPopFwd(uf, ub)])
      [] s.pc = "append" ->
           SplitFrom([s EXCEPT
               !.functions = Append(s.functions,
                   SelfContainedOp(s.used_forwards, s.used_backwards)),
               !.pc = "while_queues"])

\* mutant: every item is put into one unit
SplitIntoOne(f, b) ==
    [raised |-> FALSE, functions |-> <<SelfContainedOp(f, b)>>]

\* split_into_self_contained(fwds, bwds), from its entry
split_into_self_contained(f, b) ==
    SplitFrom([fwds |-> f, bwds |-> b, functions |-> <<>>,
               used_forwards |-> <<>>, used_backwards |-> <<>>,
               uf |-> {}, ub |-> {}, pc |-> "while_queues"])

\* a call __init__ makes: the function, the mode it is given, the list of
\* operations it is given
Called(fn, mode, ops) == [fn |-> fn, mode |-> mode, ops |-> ops]

\* mutant: the transform is applied whatever the world size
AfterForceAlwaysParallel(env) == "model_parallel_transform"

\* lines 120-123: where __init__ goes after force_use_bf16
AfterForce(env) ==
    IF env.world_size > 1 THEN "model_parallel_transform"
    ELSE "get_fused_op_list"

\* mutant: the types are left as they are, fp8 disabled or not
AfterNameOpsSkipsForce(env) == AfterForce(env)

\* lines 118-123: where __init__ goes after name_ops
AfterNameOps(env) ==
    IF ~env.fp8_enabled THEN "force_use_bf16" ELSE AfterForce(env)

InitBuild ==
    /\ p_heap = <<>> /\ p_ops = <<>> /\ p_i = 0 /\ p_pc = "idle"
    /\ it_n = 0 /\ it_done = <<>>
    /\ g_n = 0 /\ g_m = 0 /\ g_x = NoTorch /\ g_nvte_x = NoNvte
    /\ g_fwd = <<>> /\ g_back = <<>> /\ g_slots = <<>> /\ g_i = 0
    /\ gpc = "idle"
    /\ f_mode = "" /\ f_cls = <<>> /\ f_patterns = {} /\ f_first = <<>>
    /\ f_list = <<>> /\ fpc = "idle"
    /\ s_op = <<>> /\ s_given = <<>> /\ s_last = <<>>
    /\ pipeline = <<>> /\ memory = <<>> /\ gens = <<>> /\ infs = <<>>
    /\ prims = <<>> /\ threaded = <<0, "None">> /\ op_i = 0 /\ ppc = "idle"
    /\ \E n \in 1..MaxListed :
          /\ \E os \in [1..n -> OpObjects] :
                b_heap = [a \in 1..n |-> WithTensor(os[a], a)]
          /\ b_ops = [k \in 1..n |-> k]
    /\ b_env \in [fp8_enabled : BOOLEAN, world_size : {1, 2}]
    /\ b_local = NoLocals
    /\ b_log = <<>>
    /\ b_self = NoPipeline
    /\ bpc = "copy_op_list"
    \* nothing else runs
    /\ fwds0 = <<>> /\ bwds0 = <<>> /\ fwds = <<>> /\ bwds = <<>>
    /\ functions = <<>> /\ used_forwards = <<>> /\ used_backwards = <<>>
    /\ unmatched_fwd_ops = {} /\ unmatched_bwd_ops = {}
    /\ forward = <<>> /\ backward = <<>> /\ pc = "returned"
    /\ calls = NoCalls /\ heap = <<>> /\ classGrad = None
    /\ _args = ArgsUnassigned
    /\ unit = NoUnit /\ params = <<>> /\ inputs = <<>> /\ todo_bwds = <<>>
    /\ dy = NoTensor /\ full_grads = <<>> /\ outputs = <<>> /\ upc = "idle"
    /\ apply_x = NoTorch /\ nvte_x = NoNvte /\ squished_now = FALSE
    /\ tensor_mess = <<>> /\ given = NoNvte /\ nvte_y = NoNvte
    /\ returned_prev = NoNvte /\ exposed_y = NoTorch /\ fctx = NoFlags
    /\ result = <<>> /\ n_units = 0 /\ loop_i = 0 /\ hpc = "idle"
    /\ ctx_unit = NoUnit /\ ctx_keys = {} /\ full_ctx = <<>> /\ ctxs = <<>>
    /\ ctx_pc = "idle"
    /\ sq_orig = NoTorch /\ sq_t = NoTorch /\ sq_calls = <<>>
    /\ sq_error = NoError

\* line 115: ops = copy_op_list(ops)
CopyOps ==
    /\ bpc = "copy_op_list"
    /\ LET c == copy_op_list(b_heap, b_ops) IN
         /\ b_heap' = c.heap
         /\ b_local' = [b_local EXCEPT !.ops = c.ops]
    /\ b_log' = Append(b_log, Called("copy_op_list", "", b_ops))
    /\ bpc' = "name_ops"
    /\ UNCHANGED <<b_ops, b_env, b_self>>
    /\ UNCHANGED notBuild

\* line 117: name_ops(ops)
NameOps ==
    /\ bpc = "name_ops"
    /\ b_heap' = SetNames(b_heap, b_local.ops)
    /\ b_log' = Append(b_log, Called("name_ops", "", b_local.ops))
    /\ bpc' = AfterNameOps(b_env)
    /\ UNCHANGED <<b_ops, b_env, b_local, b_self>>
    /\ UNCHANGED notBuild

\* lines 118-119: force_use_bf16(ops), fp8 being disabled
ForceUseBf16 ==
    /\ bpc = "force_use_bf16"
    /\ b_heap' = force_use_bf16(b_heap, b_local.ops)
    /\ b_log' = Append(b_log, Called("force_use_bf16", "", b_local.ops))
    /\ bpc' = AfterForce(b_env)
    /\ UNCHANGED <<b_ops, b_env, b_local, b_self>>
    /\ UNCHANGED notBuild

\* lines 120-121 and 65-66: model_parallel_transform(ops) raises
\* NotImplementedError, and __init__ with it
ModelParallelTransform ==
    /\ bpc = "model_parallel_transform"
    /\ b_log' = Append(b_log, Called("model_parallel_transform", "",
                                     b_local.ops))
    /\ bpc' = "raised"
    /\ UNCHANGED <<b_ops, b_env, b_heap, b_local, b_self>>
    /\ UNCHANGED notBuild

\* line 123: self._inf = get_fused_op_list(ops, "inference"); the list
\* groups the operations of ops, by index, in list order
FuseInference ==
    /\ bpc = "get_fused_op_list"
    /\ \E inf \in FusedRuns(1, Len(b_local.ops)) :
          b_self' = [b_self EXCEPT !._inf = inf]
    /\ b_log' = Append(b_log, Called("get_fused_op_list", "inference",
                                     b_local.ops))
    /\ bpc' = "split_into_self_contained"
    /\ UNCHANGED <<b_ops, b_env, b_heap, b_local>>
    /\ UNCHANGED notBuild

\* lines 125-129: the forward and the backward list are fused from ops and
\* split into self.functions; self.forward and self.backward list the items
\* of the units
Partition ==
    /\ bpc = "split_into_self_contained"
    /\ \E fwd \in FusedRuns(1, Len(b_local.ops)),
          bwd \in FusedRuns(1, Len(b_local.ops)) :
          LET split == split_into_self_contained(fwd, bwd) IN
            /\ ~split.raised
            /\ b_local' = [b_local EXCEPT !.forward = fwd, !.backward = bwd]
            /\ b_self' = [b_self EXCEPT
                             !.functions = split.functions,
                             !.forward = PipelineForward(split.functions),
                             !.backward = PipelineBackward(split.functions)]
    /\ b_log' = b_log \o
          <<Called("get_fused_op_list", "forward", b_local.ops),
            Called("get_fused_op_list", "backward", b_local.ops),
            Called("split_into_self_contained", "", b_local.ops)>>
    /\ bpc' = "constructed"
    /\ UNCHANGED <<b_ops, b_env, b_heap>>
    /\ UNCHANGED notBuild

NextBuild ==
    \/ CopyOps
    \/ NameOps
    \/ ForceUseBf16
    \/ ModelParallelTransform
    \/ FuseInference
    \/ Partition

\* the operation objects an item of a fused list is made of
ObjectsOf(list) == {b_heap[b_local.ops[k]] : k \in OpsOfAll(list)}

\* C20: after construction with fp8_enabled = False, no operation of the
\* inference, forward and backward lists has an 8-bit floating input_type or
\* output_type
C20_NoFp8Types ==
    (bpc = "constructed" /\ ~b_env.fp8_enabled) =>
        \A list \in {b_self._inf, b_self.forward, b_self.backward} :
            \A o \in ObjectsOf(list) :
                /\ ~is_fp8_type(o[Attr.input_type])
                /\ ~is_fp8_type(o[Attr.output_type])

\* the positions in b_log of the calls of fn
CallsOf(fn) == {i \in DOMAIN b_log : b_log[i].fn = fn}

\* C21: with world_size = 1 construction never calls model_parallel_transform
\* and never raises; with world_size > 1 it raises in that call, before any
\* call of get_fused_op_list or split_into_self_contained, and nothing has
\* been assigned to the pipeline object
C21_ParallelTransformOnlyWhenDistributed ==
    /\ b_env.world_size = 1 =>
          /\ CallsOf("model_parallel_transform") = {}
          /\ bpc # "raised"
    /\ b_env.world_size > 1 =>
          /\ CallsOf("get_fused_op_list") = {}
          /\ CallsOf("split_into_self_contained") = {}
          /\ b_self = NoPipeline
          /\ bpc \in {"copy_op_list", "name_ops", "force_use_bf16",
                      "model_parallel_transform", "raised"}
          /\ bpc = "raised" <=> CallsOf("model_parallel_transform") # {}

\* a construction with world_size 2 and fp8 disabled has raised
C21_Witness ==
    /\ bpc = "raised"
    /\ b_env.world_size = 2
    /\ ~b_env.fp8_enabled
    /\ CallsOf("force_use_bf16") # {}
    /\ Last(b_log).fn = "model_parallel_transform"

\* C22: no step of the construction changes the caller's list or an object
\* of it (no name is set on it, no type of it is rewritten); the operations
\* __init__ works on are other objects than the caller's, one per operation,
\* and each holds the very tensor the caller's operation holds
C22_CallerUntouched ==
    [][/\ b_ops' = b_ops
       /\ \A a \in Range(b_ops) : b_heap'[a] = b_heap[a]
       /\ b_local'.ops # <<>> =>
             /\ Range(b_local'.ops) \cap Range(b_ops) = {}
             /\ Len(b_local'.ops) = Len(b_ops)
             /\ \A k \in DOMAIN b_ops :
                   b_heap'[b_local'.ops[k]][Attr.weight]
                       = b_heap'[b_ops[k]][Attr.weight]]_vars

\* constructed with fp8 disabled: a copy got its name and its param_dtype
\* forced while the caller's operation still has the fp8 type and no name
C22_Witness ==
    /\ bpc = "constructed"
    /\ ~b_env.fp8_enabled
    /\ \E k \in DOMAIN b_ops :
          LET mine == b_heap[b_ops[k]]
              copy == b_heap[b_local.ops[k]]
          IN /\ Attr.param_dtype \in DOMAIN mine
             /\ mine[Attr.param_dtype] = "Float8E4M3"
             /\ copy[Attr.param_dtype] = "BFloat16"
             /\ Attr.name \notin DOMAIN mine
             /\ Attr.name \in DOMAIN copy
             /\ copy[Attr.weight] = TensorRef(b_ops[k])

\* the calls __init__ makes on env, in order: the function and its mode
StepsOf(env) ==
    <<<<"copy_op_list", "">>, <<"name_ops", "">>>>
      \o (IF ~env.fp8_enabled THEN <<<<"force_use_bf16", "">>>> ELSE <<>>)
      \o (IF env.world_size > 1
          THEN <<<<"model_parallel_transform", "">>>> ELSE <<>>)
      \o <<<<"get_fused_op_list", "inference">>,
           <<"get_fused_op_list", "forward">>,
           <<"get_fused_op_list", "backward">>,
           <<"split_into_self_contained", "">>>>

\* C29: the calls of a construction are, in order, copy_op_list, name_ops,
\* force_use_bf16 (exactly when fp8 is disabled), model_parallel_transform
\* (exactly when world_size > 1), get_fused_op_list for inference, forward
\* and backward, split_into_self_contained; a constructed pipeline has made
\* them all.  Every call after copy_op_list is given the one list of copies,
\* and with fp8 disabled force_use_bf16 has gone over these very objects
\* before the first get_fused_op_list: none of them holds an fp8 type in an
\* attribute named *_dtype
C29_StepsInOrder ==
    /\ Len(b_log) <= Len(StepsOf(b_env))
    /\ \A i \in DOMAIN b_log :
          /\ <<b_log[i].fn, b_log[i].mode>> = StepsOf(b_env)[i]
          /\ i > 1 => b_log[i].ops = b_local.ops
    /\ bpc = "constructed" => Len(b_log) = Len(StepsOf(b_env))
    /\ (CallsOf("get_fused_op_list") # {} /\ ~b_env.fp8_enabled) =>
          /\ \E j \in CallsOf("force_use_bf16") :
                \A i \in CallsOf("get_fused_op_list") : j < i
          /\ \A a \in Range(b_local.ops) :
                \A x \in DOMAIN b_heap[a] :
                   endswith(x, <<"_", "d", "t", "y", "p", "e">>) =>
                       ~is_fp8_type(b_heap[a][x])

\* constructed with fp8 disabled from a list with an operation whose
\* param_dtype was an fp8 type: the three fused lists were made of its copy
C29_Witness ==
    /\ bpc = "constructed"
    /\ ~b_env.fp8_enabled
    /\ Len(b_log) = 7
    /\ \E k \in DOMAIN b_ops :
          /\ Attr.param_dtype \in DOMAIN b_heap[b_ops[k]]
          /\ b_heap[b_ops[k]][Attr.param_dtype] = "Float8E4M3"
          /\ b_heap[b_local.ops[k]][Attr.param_dtype] = "BFloat16"
          /\ \A list \in {b_self._inf, b_self.forward, b_self.backward} :
                k \in OpsOfAll(list)

\* the chain [LayerNorm, Gemm] was constructed on one device with fp8
\* disabled, and the forward and the backward list are grouped alike
LayerNormGemmAlike ==
    /\ bpc = "constructed"
    /\ Len(b_ops) = 2
    /\ Attr.param_type \in DOMAIN b_heap[b_ops[1]]
    /\ Attr.param_dtype \in DOMAIN b_heap[b_ops[2]]
    /\ b_env.world_size = 1
    /\ ~b_env.fp8_enabled
    /\ b_local.forward = b_local.backward

\* C23 as stated: that construction produces exactly one SelfContainedOp
C23_OneUnit ==
    LayerNormGemmAlike => Len(b_self.functions) = 1

\* C23: that construction produces one SelfContainedOp per item of the common
\* grouping, each holding that item forward and backward: exactly one when
\* the two operations are fused into one item, two when they are not
C23_OneUnitPerItem ==
    LayerNormGemmAlike =>
        /\ Len(b_self.functions) = Len(b_local.forward)
        /\ \A u \in DOMAIN b_self.functions :
              /\ b_self.functions[u].fwds = <<b_local.forward[u]>>
              /\ b_self.functions[u].bwds = <<b_local.backward[u]>>
        /\ Len(b_self.functions) = 1 <=> b_local.forward = <<FusedOp({1, 2})>>

\* LayerNorm and Gemm left unfused in both lists: two units
C23_Witness ==
    /\ LayerNormGemmAlike
    /\ b_local.forward = <<ElementaryOp(1), ElementaryOp(2)>>
    /\ Len(b_self.functions) = 2

(***************************************************************************)
(* Op of sequential_new: the setup calls and the properties.               *)
(*                                                                         *)
(* A value carries its type as a tag: <<"Unset">> is an instance of Unset, *)
(* <<"None">> is None, <<"int", n>> an int, <<"DType", d>> a member of     *)
(* DType, <<"DTypeInfer">> a DTypeInfer, <<"ExecutionEnv", group>> an      *)
(* environment whose distributed_group is None or <<"group", size>>,       *)
(* <<"tuple", dims>> a shape; a parallelism is the pair of its PTypes.     *)
(***************************************************************************)
Unset == <<"Unset">>

PyNone == <<"None">>

PyInt(n) == <<"int", n>>

\* the members of ParallelismClass: the distribution of an operation's
\* input and of its output
ParallelismClass ==
    [NORMAL |-> <<"NA", "NA">>, ROWP |-> <<"NRS", "NRS">>,
     COLP |-> <<"NCS", "NCS">>, CGEMM |-> <<"NA", "NCS">>,
     RGEMM |-> <<"NCS", "PA">>, S |-> <<"NA", "NRS">>,
     RS |-> <<"PA", "NRS">>, AG |-> <<"NRS", "NA">>, AR |-> <<"PA", "NA">>]

\* the members _normal, _row_parallel, _column_parallel, _rgemm and _cgemm
\* give to an operation
OpParallelism ==
    {ParallelismClass.NORMAL, ParallelismClass.ROWP, ParallelismClass.COLP,
     ParallelismClass.CGEMM, ParallelismClass.RGEMM}

\* how a call ends: with the operation as it leaves it, the exception it
\* raised (or none) and the value it returned
Ended(o, error, value) == [op |-> o, error |-> error, value |-> value]

\* the property environment
environment(o) ==
    IF o.environment = Unset
    THEN Ended(o, Raised("AssertionError", ""), PyNone)
    ELSE Ended(o, NoError, o.environment)

\* mutant: the group size is returned as it is, None too
dist_group_size_unchecked(o) == Ended(o, NoError, o.dist_group_size)

\* the property dist_group_size
dist_group_size(o) ==
    IF o.dist_group_size = Unset
    THEN Ended(o, Raised("AssertionError", ""), PyNone)
    ELSE IF o.dist_group_size = PyNone
    THEN Ended(o, Raised("ValueError",
        "Operation is not distributed, but distributed group size is requested"),
        PyNone)
    ELSE Ended(o, NoError, o.dist_group_size)

\* mutant: the raw type is returned, resolved or not
input_type_raw(o) == Ended(o, NoError, o.input_type)

\* the property input_type
input_type(o) ==
    IF o.input_type[1] # "DType"
    THEN Ended(o, Raised("AssertionError", ""), PyNone)
    ELSE Ended(o, NoError, o.input_type)

\* the property output_type
output_type(o) ==
    IF o.output_type[1] # "DType"
    THEN Ended(o, Raised("AssertionError", ""), PyNone)
    ELSE Ended(o, NoError, o.output_type)

\* the property parallellism
parallellism(o) ==
    IF o.parallellism = Unset
    THEN Ended(o, Raised("AssertionError", ""), PyNone)
    ELSE Ended(o, NoError, o.parallellism)

\* the property input_shape
input_shape(o) ==
    IF o.input_shape = Unset
    THEN Ended(o, Raised("AssertionError", ""), PyNone)
    ELSE Ended(o, NoError, o.input_shape)

\* set_environment: the group size is that of the distributed group, None
\* without one
set_environment(o, env) ==
    Ended([o EXCEPT !.environment = env,
                    !.dist_group_size =
                        IF env[2] # PyNone THEN PyInt(env[2][2]) ELSE PyNone],
          NoError, PyNone)

\* set_types_inferred
set_types_inferred(o, it, ot) ==
    Ended([o EXCEPT !.input_type = it, !.output_type = ot], NoError, PyNone)

\* set_parallelism
set_parallelism(o, p) == Ended([o EXCEPT !.parallellism = p], NoError, PyNone)

\* mutant: the feature count is divided without the test of divisibility
GemmUntested(o) ==
    LET w == IF o.dist_group_size[1] = "int" THEN o.dist_group_size[2] ELSE 1
    IN IF o.parallellism = ParallelismClass.RGEMM
       THEN Ended([o EXCEPT !.in_features = o.in_features \div w],
                  NoError, PyNone)
       ELSE IF o.parallellism = ParallelismClass.CGEMM
       THEN Ended([o EXCEPT !.out_features = o.out_features \div w],
                  NoError, PyNone)
       ELSE Ended(o, NoError, PyNone)

\* Gemm._pre_describe_tensors
Gemm_pre_describe_tensors(o) ==
    LET par == parallellism(o)
        distributed ==
            o.parallellism \in {ParallelismClass.RGEMM, ParallelismClass.CGEMM}
        size == dist_group_size(o)
        workers == IF distributed THEN size.value[2] ELSE 1
    IN IF par.error # NoError THEN par
       ELSE IF o.parallellism \notin {ParallelismClass.NORMAL,
                                      ParallelismClass.RGEMM,
                                      ParallelismClass.CGEMM}
       THEN Ended(o, Raised("AssertionError", ""), PyNone)
       ELSE IF distributed /\ size.error # NoError THEN size
       ELSE IF o.parallellism = ParallelismClass.RGEMM
       THEN IF o.in_features % workers # 0
            THEN Ended(o, Raised("ValueError",
  "Number of input features must be divisible by the distributed group size"),
                       PyNone)
            ELSE Ended([o EXCEPT !.in_features = o.in_features \div workers],
                       NoError, PyNone)
       ELSE IF o.parallellism = ParallelismClass.CGEMM
       THEN IF o.out_features % workers # 0
            THEN Ended(o, Raised("ValueError",
  "Number of output features must be divisible by the distributed group size"),
                       PyNone)
            ELSE Ended([o EXCEPT !.out_features = o.out_features \div workers],
                       NoError, PyNone)
       ELSE Ended(o, NoError, PyNone)

\* Bias._pre_describe_tensors
Bias_pre_describe_tensors(o) ==
    LET par == parallellism(o)
        distributed == o.parallellism = ParallelismClass.COLP
        size == dist_group_size(o)
        workers == IF distributed THEN size.value[2] ELSE 1
    IN IF par.error # NoError THEN par
       ELSE IF o.parallellism \notin {ParallelismClass.NORMAL,
                                      ParallelismClass.ROWP,
                                      ParallelismClass.COLP}
       THEN Ended(o, Raised("AssertionError", ""), PyNone)
       ELSE IF distributed /\ size.error # NoError THEN size
       ELSE IF o.features % workers # 0
       THEN Ended(o, Raised("ValueError",
         "Number of features must be divisible by the distributed group size"),
                  PyNone)
       ELSE Ended([o EXCEPT !.features = o.features \div workers],
                  NoError, PyNone)

\* _pre_describe_tensors of the class of o; EnvObliviousOp returns at once
_pre_describe_tensors(o) ==
    CASE o.cls = "Gemm" -> Gemm_pre_describe_tensors(o)
      [] o.cls = "Bias" -> Bias_pre_describe_tensors(o)
      [] OTHER -> Ended(o, NoError, PyNone)

\* set_input_shape: the shape is bound, then _pre_describe_tensors runs
set_input_shape(o, shape) ==
    _pre_describe_tensors([o EXCEPT !.input_shape = shape])

\* the values the callers pass
DT(d) == <<"DType", d>>

DTypeInfer == <<"DTypeInfer">>

Envs ==
    {<<"ExecutionEnv", g>> :
        g \in {PyNone} \cup {<<"group", w>> : w \in 1..MaxWorkers}}

Shapes == {<<"tuple", <<b, MaxFeatures>>>> : b \in 1..2}

\* the properties, by name
Property(name, o) ==
    CASE name = "environment" -> environment(o)
      [] name = "dist_group_size" -> dist_group_size(o)
      [] name = "input_type" -> input_type(o)
      [] name = "output_type" -> output_type(o)
      [] name = "parallellism" -> parallellism(o)
      [] name = "input_shape" -> input_shape(o)

PropertyNames ==
    {"environment", "dist_group_size", "input_type", "output_type",
     "parallellism", "input_shape"}

\* no setter has given the property a value yet
Never == <<"never">>

\* the call and how it ended
CallEnded(call, r) == [call |-> call, error |-> r.error, value |-> r.value]

\* Op.__init__ as ReduceScatter and AllGather inherit it: the two types as
\* given, everything else unset; they hold no feature count
CollectiveOp(cls, it, ot) ==
    [cls |-> cls, input_type |-> it, output_type |-> ot,
     environment |-> Unset, dist_group_size |-> Unset,
     parallellism |-> Unset, input_shape |-> Unset,
     in_features |-> 0, out_features |-> 0, features |-> 0]

\* __single_parallel on an operation that refers to no other: the one
\* operation of the variant is a copy given the parallelism
_single_parallel(p, o) == <<set_parallelism(o, p).op>>

\* _rgemm_rs: a copy of the Gemm made row-parallel and a ReduceScatter
\* built from the Gemm's output type and environment
_rgemm_rs(o) ==
    LET op == set_parallelism(o, ParallelismClass.RGEMM).op
        ot == output_type(op)
        env == environment(op)
    IN IF ot.error # NoError THEN ot
       ELSE IF env.error # NoError THEN env
       ELSE LET made == CollectiveOp("ReduceScatter", ot.value, ot.value)
                placed == set_environment(made, env.value).op
                typed == set_types_inferred(placed, ot.value, ot.value).op
                rs == set_parallelism(typed, ParallelismClass.RS).op
            IN Ended(o, NoError,
                     _single_parallel(ParallelismClass.RGEMM, op) \o <<rs>>)

\* _ag_cgemm: an AllGather built from the Gemm's input type and environment
\* and given set_types_inferred(op.output_type, op.output_type), and a copy
\* of the Gemm made column-parallel
_ag_cgemm(o) ==
    LET it == input_type(o)
        env == environment(o)
        ot == output_type(o)
    IN IF it.error # NoError THEN it
       ELSE IF env.error # NoError THEN env
       ELSE IF ot.error # NoError THEN ot
       ELSE LET made == CollectiveOp("AllGather", it.value, it.value)
                placed == set_environment(made, env.value).op
                typed == set_types_inferred(placed, ot.value, ot.value).op
                ag == set_parallelism(typed, ParallelismClass.AG).op
                op == set_parallelism(o, ParallelismClass.CGEMM).op
            IN Ended(o, NoError,
                     <<ag>> \o _single_parallel(ParallelismClass.CGEMM, op))

\* Gemm.describe_parallellism: the five variants, or the exception the
\* first composite variant that fails raised
Gemm_describe_parallellism(o) ==
    LET with_rs == _rgemm_rs(o)
        with_ag == _ag_cgemm(o)
    IN IF with_rs.error # NoError THEN with_rs
       ELSE IF with_ag.error # NoError THEN with_ag
       ELSE Ended(o, NoError,
                  <<_single_parallel(ParallelismClass.NORMAL, o),
                    _single_parallel(ParallelismClass.RGEMM, o),
                    _single_parallel(ParallelismClass.CGEMM, o),
                    with_rs.value, with_ag.value>>)

\* Op.__init__ and the __init__ of Gemm, Bias and Identity: a feature count
\* the class does not have is 0
InitSetup ==
    /\ p_heap = <<>> /\ p_ops = <<>> /\ p_i = 0 /\ p_pc = "idle"
    /\ it_n = 0 /\ it_done = <<>>
    /\ g_n = 0 /\ g_m = 0 /\ g_x = NoTorch /\ g_nvte_x = NoNvte
    /\ g_fwd = <<>> /\ g_back = <<>> /\ g_slots = <<>> /\ g_i = 0
    /\ gpc = "idle"
    /\ f_mode = "" /\ f_cls = <<>> /\ f_patterns = {} /\ f_first = <<>>
    /\ f_list = <<>> /\ fpc = "idle"
    /\ \E cls \in {"Gemm", "Bias", "Identity"},
          it \in {DTypeInfer, DT("BFloat16")},
          ot \in {DTypeInfer, DT("BFloat16")},
          n \in 1..MaxFeatures, m \in 1..MaxFeatures :
          /\ cls # "Gemm" => m = 1
          /\ cls = "Identity" => n = 1
          /\ s_op = [cls |-> cls,
                     input_type |-> it, output_type |-> ot,
                     environment |-> Unset, dist_group_size |-> Unset,
                     parallellism |-> Unset, input_shape |-> Unset,
                     in_features |-> IF cls = "Gemm" THEN n ELSE 0,
                     out_features |-> IF cls = "Gemm" THEN m ELSE 0,
                     features |-> IF cls = "Bias" THEN n ELSE 0]
          /\ s_given = [environment |-> Never, dist_group_size |-> Never,
                        input_type |-> it, output_type |-> ot,
                        parallellism |-> Never, input_shape |-> Never]
    /\ s_last = [call |-> "__init__", error |-> NoError, value |-> PyNone]
    \* nothing else runs
    /\ b_ops = <<>> /\ b_env = NoEnv
    /\ b_self = NoPipeline /\ bpc = "idle"
    /\ b_heap = <<>> /\ b_local = NoLocals /\ b_log = <<>>
    /\ pipeline = <<>> /\ memory = <<>> /\ gens = <<>> /\ infs = <<>>
    /\ prims = <<>> /\ threaded = <<0, "None">> /\ op_i = 0 /\ ppc = "idle"
    /\ fwds0 = <<>> /\ bwds0 = <<>> /\ fwds = <<>> /\ bwds = <<>>
    /\ functions = <<>> /\ used_forwards = <<>> /\ used_backwards = <<>>
    /\ unmatched_fwd_ops = {} /\ unmatched_bwd_ops = {}
    /\ forward = <<>> /\ backward = <<>> /\ pc = "returned"
    /\ calls = NoCalls /\ heap = <<>> /\ classGrad = None
    /\ _args = ArgsUnassigned
    /\ unit = NoUnit /\ params = <<>> /\ inputs = <<>> /\ todo_bwds = <<>>
    /\ dy = NoTensor /\ full_grads = <<>> /\ outputs = <<>> /\ upc = "idle"
    /\ apply_x = NoTorch /\ nvte_x = NoNvte /\ squished_now = FALSE
    /\ tensor_mess = <<>> /\ given = NoNvte /\ nvte_y = NoNvte
    /\ returned_prev = NoNvte /\ exposed_y = NoTorch /\ fctx = NoFlags
    /\ result = <<>> /\ n_units = 0 /\ loop_i = 0 /\ hpc = "idle"
    /\ ctx_unit = NoUnit /\ ctx_keys = {} /\ full_ctx = <<>> /\ ctxs = <<>>
    /\ ctx_pc = "idle"
    /\ sq_orig = NoTorch /\ sq_t = NoTorch /\ sq_calls = <<>>
    /\ sq_error = NoError

\* op.set_environment(env)
SetEnvironment ==
    /\ \E env \in Envs :
          LET r == set_environment(s_op, env) IN
            /\ s_op' = r.op
            /\ s_given' = [s_given EXCEPT
                  !.environment = env,
                  !.dist_group_size =
                      IF env[2] = PyNone THEN PyNone ELSE PyInt(env[2][2])]
            /\ s_last' = CallEnded("set_environment", r)
    /\ UNCHANGED notSetup

\* op.set_types_inferred(inferred_input_type, inferred_output_type)
SetTypesInferred ==
    /\ \E ts \in {<<DT("BFloat16"), DT("Float8E4M3")>>,
                   <<DT("Float8E4M3"), DT("BFloat16")>>} :
          LET r == set_types_inferred(s_op, ts[1], ts[2]) IN
            /\ s_op' = r.op
            /\ s_given' = [s_given EXCEPT !.input_type = ts[1],
                                          !.output_type = ts[2]]
            /\ s_last' = CallEnded("set_types_inferred", r)
    /\ UNCHANGED notSetup

\* op.raw_input_type = value, op.raw_output_type = value
SetRawType ==
    /\ \E name \in {"input_type", "output_type"},
          t \in {DT("BFloat16"), DT("Float8E4M3")} :
          /\ s_op' = [s_op EXCEPT ![name] = t]
          /\ s_given' = [s_given EXCEPT ![name] = t]
    /\ s_last' = [call |-> "raw_type", error |-> NoError, value |-> PyNone]
    /\ UNCHANGED notSetup

\* op.set_parallelism(chosen_parallelism)
SetParallelism ==
    /\ \E p \in OpParallelism :
          LET r == set_parallelism(s_op, p) IN
            /\ s_op' = r.op
            /\ s_given' = [s_given EXCEPT !.parallellism = p]
            /\ s_last' = CallEnded("set_parallelism", r)
    /\ UNCHANGED notSetup

\* op.set_input_shape(input_shape), returning or raising
SetInputShape ==
    /\ \E shape \in Shapes :
          LET r == set_input_shape(s_op, shape) IN
            /\ s_op' = r.op
            /\ s_given' = [s_given EXCEPT !.input_shape = shape]
            /\ s_last' = CallEnded("set_input_shape", r)
    /\ UNCHANGED notSetup

\* a property of the operation is read
ReadProperty ==
    /\ \E name \in PropertyNames :
          s_last' = CallEnded(name, Property(name, s_op))
    /\ UNCHANGED <<s_op, s_given>>
    /\ UNCHANGED notSetup

NextSetup ==
    \/ SetEnvironment
    \/ SetTypesInferred
    \/ SetRawType
    \/ SetParallelism
    \/ SetInputShape
    \/ ReadProperty

\* the operation is given a distributed variant that splits a feature count
\* the size of its distributed group does not divide
Indivisible ==
    /\ s_given.dist_group_size[1] = "int"
    /\ LET workers == s_given.dist_group_size[2] IN
         \/ /\ s_op.cls = "Gemm"
            /\ s_given.parallellism = ParallelismClass.RGEMM
            /\ s_op.in_features % workers # 0
         \/ /\ s_op.cls = "Gemm"
            /\ s_given.parallellism = ParallelismClass.CGEMM
            /\ s_op.out_features % workers # 0
         \/ /\ s_op.cls = "Bias"
            /\ s_given.parallellism = ParallelismClass.COLP
            /\ s_op.features % workers # 0

\* C24: set_input_shape on a row-parallel Gemm whose in_features, a
\* column-parallel Gemm whose out_features or a column-parallel Bias whose
\* features the size of the distributed group does not divide raises a
\* ValueError with a message, and leaves the feature counts as they were
C24_IndivisibleRaises ==
    [][(s_last'.call = "set_input_shape" /\ Indivisible) =>
          /\ s_last'.error.type = "ValueError"
          /\ Descriptive(s_last'.error)
          /\ s_op'.in_features = s_op.in_features
          /\ s_op'.out_features = s_op.out_features
          /\ s_op'.features = s_op.features]_vars

\* set_input_shape has just raised on a row-parallel Gemm with an odd
\* in_features in a group of two
C24_Witness ==
    /\ s_last.call = "set_input_shape"
    /\ s_last.error.type = "ValueError"
    /\ s_op.cls = "Gemm"
    /\ s_given.parallellism = ParallelismClass.RGEMM
    /\ s_given.dist_group_size = PyInt(2)
    /\ s_op.in_features % 2 = 1
    /\ s_op.in_features > 1

\* the latest call read the property and failed an assert
FailedAssert(name) ==
    s_last.call = name => s_last.error.type = "AssertionError"

\* the latest call read the property and got what it was last given
GotGiven(name) ==
    s_last.call = name =>
        s_last.error = NoError /\ s_last.value = s_given[name]

\* environment, parallellism, input_shape: failing before the setter was
\* called, the value given afterwards; input_type, output_type: failing
\* while the type is a DTypeInfer, the DType given otherwise
ReadsGuarded(names) ==
    /\ \A name \in names \cap {"environment", "parallellism", "input_shape",
                               "dist_group_size"} :
          IF s_given[name] = Never THEN FailedAssert(name) ELSE GotGiven(name)
    /\ \A name \in names \cap {"input_type", "output_type"} :
          IF s_given[name] = DTypeInfer THEN FailedAssert(name)
          ELSE GotGiven(name)

\* C25 as stated: every property fails before its setter was called (the
\* types: while unresolved) and returns the value that was set afterwards
C25_ReadsGuarded == ReadsGuarded(PropertyNames)

\* C25: so it is for environment, parallellism, input_shape, input_type and
\* output_type; dist_group_size fails before set_environment, returns the
\* size of the distributed group after set_environment with an environment
\* that has one, and raises ValueError after set_environment with an
\* environment that has none
C25_ReadsGuardedWhereDistributed ==
    /\ ReadsGuarded(PropertyNames \ {"dist_group_size"})
    /\ s_last.call = "dist_group_size" =>
          CASE s_given.dist_group_size = Never ->
                 s_last.error.type = "AssertionError"
            [] s_given.dist_group_size = PyNone ->
                 s_last.error.type = "ValueError" /\ Descriptive(s_last.error)
            [] OTHER ->
                 /\ s_last.error = NoError
                 /\ s_last.value = s_given.dist_group_size
                 /\ s_last.value = PyInt(s_given.environment[2][2])

\* dist_group_size was read after set_environment with an environment that
\* has no distributed group, and raised
C25_Witness ==
    /\ s_last.call = "dist_group_size"
    /\ s_given.environment = <<"ExecutionEnv", PyNone>>
    /\ s_last.error.type = "ValueError"

(***************************************************************************)
(* A Gemm or a Bias whose set_input_shape is called again and again, and   *)
(* the variants of a Gemm (ops.py lines 136-139, 443-466, 493-534,         *)
(* 597-617).  s_given also keeps the feature counts __init__ was given and *)
(* the variant and group size under which set_input_shape returned.        *)
(***************************************************************************)
\* set_input_shape has returned under more than one choice of parallelism
\* and group size
Mixed == <<"mixed">>

\* the parallelism and group size under which every set_input_shape call
\* that returned so far was made: none yet, one choice, or more than one
ShardedUnder(before, par, size) ==
    IF before \in {Never, <<par, size>>} THEN <<par, size>> ELSE Mixed

\* Gemm.__init__ and Bias.__init__ with feature counts up to MaxSplit
InitShard ==
    /\ p_heap = <<>> /\ p_ops = <<>> /\ p_i = 0 /\ p_pc = "idle"
    /\ it_n = 0 /\ it_done = <<>>
    /\ g_n = 0 /\ g_m = 0 /\ g_x = NoTorch /\ g_nvte_x = NoNvte
    /\ g_fwd = <<>> /\ g_back = <<>> /\ g_slots = <<>> /\ g_i = 0
    /\ gpc = "idle"
    /\ b_ops = <<>> /\ b_env = NoEnv
    /\ b_self = NoPipeline /\ bpc = "idle"
    /\ b_heap = <<>> /\ b_local = NoLocals /\ b_log = <<>>
    /\ pipeline = <<>> /\ memory = <<>> /\ gens = <<>> /\ infs = <<>>
    /\ prims = <<>> /\ threaded = <<0, "None">> /\ op_i = 0 /\ ppc = "idle"
    /\ fwds0 = <<>> /\ bwds0 = <<>> /\ fwds = <<>> /\ bwds = <<>>
    /\ functions = <<>> /\ used_forwards = <<>> /\ used_backwards = <<>>
    /\ unmatched_fwd_ops = {} /\ unmatched_bwd_ops = {}
    /\ forward = <<>> /\ backward = <<>> /\ pc = "returned"
    /\ calls = NoCalls /\ heap = <<>> /\ classGrad = None
    /\ _args = ArgsUnassigned
    /\ unit = NoUnit /\ params = <<>> /\ inputs = <<>> /\ todo_bwds = <<>>
    /\ dy = NoTensor /\ full_grads = <<>> /\ outputs = <<>> /\ upc = "idle"
    /\ apply_x = NoTorch /\ nvte_x = NoNvte /\ squished_now = FALSE
    /\ tensor_mess = <<>> /\ given = NoNvte /\ nvte_y = NoNvte
    /\ returned_prev = NoNvte /\ exposed_y = NoTorch /\ fctx = NoFlags
    /\ result = <<>> /\ n_units = 0 /\ loop_i = 0 /\ hpc = "idle"
    /\ ctx_unit = NoUnit /\ ctx_keys = {} /\ full_ctx = <<>> /\ ctxs = <<>>
    /\ ctx_pc = "idle"
    /\ sq_orig = NoTorch /\ sq_t = NoTorch /\ sq_calls = <<>>
    /\ sq_error = NoError
    /\ f_mode = "" /\ f_cls = <<>> /\ f_patterns = {} /\ f_first = <<>>
    /\ f_list = <<>> /\ fpc = "idle"
    /\ \E cls \in {"Gemm", "Bias"},
          it \in {DTypeInfer, DT("BFloat16"), DT("Float8E4M3")},
          ot \in {DTypeInfer, DT("BFloat16"), DT("Float8E4M3")},
          n \in 1..MaxSplit, m \in 1..MaxSplit :
          /\ cls # "Gemm" => m = 1
          /\ s_op = [cls |-> cls,
                     input_type |-> it, output_type |-> ot,
                     environment |-> Unset, dist_group_size |-> Unset,
                     parallellism |-> Unset, input_shape |-> Unset,
                     in_features |-> IF cls = "Gemm" THEN n ELSE 0,
                     out_features |-> IF cls = "Gemm" THEN m ELSE 0,
                     features |-> IF cls = "Bias" THEN n ELSE 0]
          /\ s_given = [environment |-> Never, dist_group_size |-> Never,
                        input_type |-> it, output_type |-> ot,
                        parallellism |-> Never, input_shape |-> Never,
                        in_features |-> IF cls = "Gemm" THEN n ELSE 0,
                        out_features |-> IF cls = "Gemm" THEN m ELSE 0,
                        features |-> IF cls = "Bias" THEN n ELSE 0,
                        sharded_under |-> Never]
    /\ s_last = [call |-> "__init__", error |-> NoError, value |-> PyNone]

\* op.set_input_shape(input_shape), returning or raising, with the variant
\* and group size it returned under kept
SetInputShapeAgain ==
    /\ \E shape \in Shapes :
          LET r == set_input_shape(s_op, shape) IN
            /\ s_op' = r.op
            /\ s_given' = [s_given EXCEPT
                  !.input_shape = shape,
                  !.sharded_under =
                      IF r.error # NoError THEN @
                      ELSE ShardedUnder(@, s_given.parallellism,
                                        s_given.dist_group_size)]
            /\ s_last' = CallEnded("set_input_shape", r)
    /\ UNCHANGED notSetup

\* op.describe_parallellism() of a Gemm, returning its variants or raising;
\* the operation itself is left as it was
DescribeParallellism ==
    /\ s_op.cls = "Gemm"
    /\ s_last' = CallEnded("describe_parallellism",
                           Gemm_describe_parallellism(s_op))
    /\ UNCHANGED <<s_op, s_given>>
    /\ UNCHANGED notSetup

NextShard ==
    \/ SetEnvironment
    \/ SetParallelism
    \/ SetInputShapeAgain
    \/ DescribeParallellism

\* the feature count the operation's variant splits: what __init__ was given
\* and what the operation holds now; <<0, 0>> for a variant that splits none
SplitFeature ==
    CASE s_op.cls = "Gemm" /\ s_given.parallellism = ParallelismClass.RGEMM ->
           <<s_given.in_features, s_op.in_features>>
      [] s_op.cls = "Gemm" /\ s_given.parallellism = ParallelismClass.CGEMM ->
           <<s_given.out_features, s_op.out_features>>
      [] s_op.cls = "Bias" /\ s_given.parallellism = ParallelismClass.COLP ->
           <<s_given.features, s_op.features>>
      [] OTHER -> <<0, 0>>

\* set_input_shape has returned at least once, and every time under the
\* variant and the group size the operation has now
ShardedAsNow ==
    /\ s_given.dist_group_size[1] = "int"
    /\ s_given.sharded_under =
           <<s_given.parallellism, s_given.dist_group_size>>

\* C34: after any number of set_input_shape calls that returned on a row-
\* or column-parallel Gemm or a column-parallel Bias, the feature count the
\* variant splits is the count the operation was constructed with divided by
\* the size of the distributed group, once
C34_ShardedOnce ==
    (ShardedAsNow /\ SplitFeature # <<0, 0>>) =>
        SplitFeature[2] = SplitFeature[1] \div s_given.dist_group_size[2]

\* the variants the latest call of describe_parallellism returned
Variants ==
    IF s_last.call = "describe_parallellism" /\ s_last.error = NoError
    THEN Range(s_last.value) ELSE {}

\* C35: in every variant Gemm.describe_parallellism returns, an AllGather
\* has the input type of the Gemm after it as its input and output type, a
\* ReduceScatter has the output type of the Gemm before it as its input and
\* output type, and the output distribution of every operation is the
\* input distribution of the operation after it
C35_VariantsChain ==
    \A v \in Variants : \A k \in DOMAIN v :
        /\ (v[k].cls = "AllGather" /\ k < Len(v)) =>
              /\ v[k].input_type = v[k + 1].input_type
              /\ v[k].output_type = v[k + 1].input_type
        /\ (v[k].cls = "ReduceScatter" /\ k > 1) =>
              /\ v[k].input_type = v[k - 1].output_type
              /\ v[k].output_type = v[k - 1].output_type
        /\ k < Len(v) => v[k].parallellism[2] = v[k + 1].parallellism[1]

(***************************************************************************)
(* get_fused_op_list(ops, mode).  A pattern is a sequence of operation     *)
(* classes; the list is read from its front, and where the classes of the  *)
(* operations that follow match a pattern of the mode (the longest that    *)
(* matches) they are replaced by one FusedOp; an operation at which no     *)
(* pattern matches passes through.  A FusedOp is of no declared operation  *)
(* class and matches no pattern.                                           *)
(***************************************************************************)
\* the declared operation classes followed
FusableClasses == {"Bias", "Gelu"}

\* sequences of classes of the length n
RECURSIVE ClassRuns(_)
ClassRuns(n) ==
    IF n = 0 THEN {<<>>}
    ELSE {<<c>> \o r : c \in FusableClasses, r \in ClassRuns(n - 1)}

\* the sets of at most n elements of S
RECURSIVE UpTo(_, _)
UpTo(S, n) ==
    IF n = 0 THEN {{}}
    ELSE UpTo(S, n - 1)
             \cup {T \cup {x} : T \in UpTo(S, n - 1), x \in S}

\* the pattern p matches the items of the list from position i on
MatchesAt(items, cls, i, p) ==
    /\ i + Len(p) - 1 <= Len(items)
    /\ \A j \in DOMAIN p :
          /\ ~items[i + j - 1].fused
          /\ cls[items[i + j - 1].id] = p[j]

RECURSIVE FuseFrom(_, _, _, _)

\* mutant: the search ends with the first run that is fused
RestUnfused(items, cls, patterns, i) == SubSeq(items, i, Len(items))

\* the search goes on behind a run that was fused
FuseRest(items, cls, patterns, i) == FuseFrom(items, cls, patterns, i)

\* the list from position i on, fused
FuseFrom(items, cls, patterns, i) ==
    IF i > Len(items) THEN <<>>
    ELSE LET matching == {p \in patterns : MatchesAt(items, cls, i, p)} IN
         IF matching = {}
         THEN <<items[i]>> \o FuseFrom(items, cls, patterns, i + 1)
         ELSE LET p == CHOOSE q \in matching :
                           \A r \in matching : Len(r) <= Len(q)
              IN <<FusedOp({items[i + j - 1].id : j \in DOMAIN p})>>
                     \o FuseRest(items, cls, patterns, i + Len(p))

\* get_fused_op_list
get_fused_op_list(items, cls, patterns) == FuseFrom(items, cls, patterns, 1)

InitFuse ==
    /\ p_heap = <<>> /\ p_ops = <<>> /\ p_i = 0 /\ p_pc = "idle"
    /\ it_n = 0 /\ it_done = <<>>
    /\ g_n = 0 /\ g_m = 0 /\ g_x = NoTorch /\ g_nvte_x = NoNvte
    /\ g_fwd = <<>> /\ g_back = <<>> /\ g_slots = <<>> /\ g_i = 0
    /\ gpc = "idle"
    /\ f_mode \in {"inference", "forward", "backward"}
    /\ \E n \in 1..MaxFused : f_cls \in [1..n -> FusableClasses]
    /\ f_patterns \in
          UpTo(UNION {ClassRuns(n) : n \in 2..MaxPatternLen}, MaxPatterns)
    /\ f_first = <<>>
    /\ f_list = <<>>
    /\ fpc = "unfused"
    \* nothing else runs
    /\ b_ops = <<>> /\ b_env = NoEnv
    /\ b_self = NoPipeline /\ bpc = "idle"
    /\ b_heap = <<>> /\ b_local = NoLocals /\ b_log = <<>>
    /\ pipeline = <<>> /\ memory = <<>> /\ gens = <<>> /\ infs = <<>>
    /\ prims = <<>> /\ threaded = <<0, "None">> /\ op_i = 0 /\ ppc = "idle"
    /\ fwds0 = <<>> /\ bwds0 = <<>> /\ fwds = <<>> /\ bwds = <<>>
    /\ functions = <<>> /\ used_forwards = <<>> /\ used_backwards = <<>>
    /\ unmatched_fwd_ops = {} /\ unmatched_bwd_ops = {}
    /\ forward = <<>> /\ backward = <<>> /\ pc = "returned"
    /\ calls = NoCalls /\ heap = <<>> /\ classGrad = None
    /\ _args = ArgsUnassigned
    /\ unit = NoUnit /\ params = <<>> /\ inputs = <<>> /\ todo_bwds = <<>>
    /\ dy = NoTensor /\ full_grads = <<>> /\ outputs = <<>> /\ upc = "idle"
    /\ apply_x = NoTorch /\ nvte_x = NoNvte /\ squished_now = FALSE
    /\ tensor_mess = <<>> /\ given = NoNvte /\ nvte_y = NoNvte
    /\ returned_prev = NoNvte /\ exposed_y = NoTorch /\ fctx = NoFlags
    /\ result = <<>> /\ n_units = 0 /\ loop_i = 0 /\ hpc = "idle"
    /\ ctx_unit = NoUnit /\ ctx_keys = {} /\ full_ctx = <<>> /\ ctxs = <<>>
    /\ ctx_pc = "idle"
    /\ sq_orig = NoTorch /\ sq_t = NoTorch /\ sq_calls = <<>>
    /\ sq_error = NoError
    /\ s_op = <<>> /\ s_given = <<>> /\ s_last = <<>>

\* get_fused_op_list(ops, mode) on the list of the operations
FuseOnce ==
    /\ fpc = "unfused"
    /\ f_list' = get_fused_op_list([k \in DOMAIN f_cls |-> ElementaryOp(k)],
                                   f_cls, f_patterns)
    /\ f_first' = f_list'
    /\ fpc' = "fused"
    /\ UNCHANGED <<f_mode, f_cls, f_patterns>>
    /\ UNCHANGED notFuse

\* get_fused_op_list(fused, mode) on the list the first call returned
FuseAgain ==
    /\ fpc = "fused"
    /\ f_list' = get_fused_op_list(f_list, f_cls, f_patterns)
    /\ fpc' = "fused again"
    /\ UNCHANGED <<f_mode, f_cls, f_patterns, f_first>>
    /\ UNCHANGED notFuse

NextFuse ==
    \/ FuseOnce
    \/ FuseAgain

\* C26: get_fused_op_list applied to the list it returned, in the same mode,
\* returns that list again
C26_FusionIdempotent ==
    fpc = "fused again" => f_list = f_first

\* the first call fused a run and passed two operations through, under two
\* patterns, and the list was fused again
C26_Witness ==
    /\ fpc = "fused again"
    /\ \E i \in DOMAIN f_first : f_first[i].fused
    /\ Cardinality({i \in DOMAIN f_first : ~f_first[i].fused}) >= 2
    /\ Cardinality(f_patterns) >= 2

(***************************************************************************)
(* The two markers of a Residual as objects that refer to each other       *)
(* (residual.py lines 13-22, ops.py lines 226-239, compute_pipeline.py     *)
(* lines 107-110).  p_heap[a] is the object at address a: its class, the   *)
(* address its begin or end attribute refers to (0: it has neither) and    *)
(* its parallellism.  copy.deepcopy copies every object it reaches from    *)
(* what it is given, once, and makes the references of the copies refer to *)
(* the copies.                                                             *)
(***************************************************************************)
\* an operation object
OpObject(cls, ref) == [cls |-> cls, ref |-> ref, parallellism |-> <<"Unset">>]

\* Residual.expand_for_sequential, lines 13-22, on an empty heap: begin,
\* the operations of the modules, end; end.begin = begin, begin.end = end
ResidualExpand(inner) ==
    LET n == Len(inner) IN
    [heap |-> <<OpObject("ResidualBegin", n + 2)>>
                 \o [k \in 1..n |-> OpObject(inner[k], 0)]
                 \o <<OpObject("ResidualEnd", 1)>>,
     ops |-> [k \in 1..(n + 2) |-> k]]

\* the objects reached from the objects S by following begin and end
RECURSIVE Reached(_, _)
Reached(h, S) ==
    LET T == S \cup ({h[a].ref : a \in S} \ {0})
    IN  IF T = S THEN S ELSE Reached(h, T)

\* copy.deepcopy(ops) of the objects at the addresses ops: the heap with
\* the copies, and the addresses of the copies of ops
deepcopy(h, ops) ==
    LET R == Reached(h, Range(ops))
        memo(a) == Len(h) + Cardinality({b \in R : b <= a})
        orig(k) == CHOOSE a \in R : memo(a) = Len(h) + k
    IN  [heap |-> h \o [k \in 1..Cardinality(R) |->
                          [h[orig(k)] EXCEPT
                              !.ref = IF @ = 0 THEN 0 ELSE memo(@)]],
         ops |-> [k \in DOMAIN ops |-> memo(ops[k])]]

\* __single_parallel(parallelism, op), lines 226-229, for the op at a
single_parallel(parallelism, h, a) ==
    LET c == deepcopy(h, <<a>>) IN
    [heap |-> [c.heap EXCEPT ![c.ops[1]].parallellism = parallelism],
     op |-> c.ops[1]]

\* PointwiseOp.describe_parallellism, lines 237-239: the variants
PointwiseVariants ==
    {ParallelismClass.NORMAL, ParallelismClass.ROWP, ParallelismClass.COLP}

InitPair ==
    /\ \E n \in 0..MaxInner :
          \E inner \in [1..n -> {"Gelu", "Relu"}] :
             /\ p_heap = ResidualExpand(inner).heap
             /\ p_ops = ResidualExpand(inner).ops
    /\ p_i = 1
    /\ p_pc = "expanded"
    \* nothing else runs
    /\ it_n = 0 /\ it_done = <<>>
    /\ g_n = 0 /\ g_m = 0 /\ g_x = NoTorch /\ g_nvte_x = NoNvte
    /\ g_fwd = <<>> /\ g_back = <<>> /\ g_slots = <<>> /\ g_i = 0
    /\ gpc = "idle"
    /\ b_ops = <<>> /\ b_env = NoEnv
    /\ b_self = NoPipeline /\ bpc = "idle"
    /\ b_heap = <<>> /\ b_local = NoLocals /\ b_log = <<>>
    /\ pipeline = <<>> /\ memory = <<>> /\ gens = <<>> /\ infs = <<>>
    /\ prims = <<>> /\ threaded = <<0, "None">> /\ op_i = 0 /\ ppc = "idle"
    /\ fwds0 = <<>> /\ bwds0 = <<>> /\ fwds = <<>> /\ bwds = <<>>
    /\ functions = <<>> /\ used_forwards = <<>> /\ used_backwards = <<>>
    /\ unmatched_fwd_ops = {} /\ unmatched_bwd_ops = {}
    /\ forward = <<>> /\ backward = <<>> /\ pc = "returned"
    /\ calls = NoCalls /\ heap = <<>> /\ classGrad = None
    /\ _args = ArgsUnassigned
    /\ unit = NoUnit /\ params = <<>> /\ inputs = <<>> /\ todo_bwds = <<>>
    /\ dy = NoTensor /\ full_grads = <<>> /\ outputs = <<>> /\ upc = "idle"
    /\ apply_x = NoTorch /\ nvte_x = NoNvte /\ squished_now = FALSE
    /\ tensor_mess = <<>> /\ given = NoNvte /\ nvte_y = NoNvte
    /\ returned_prev = NoNvte /\ exposed_y = NoTorch /\ fctx = NoFlags
    /\ result = <<>> /\ n_units = 0 /\ loop_i = 0 /\ hpc = "idle"
    /\ ctx_unit = NoUnit /\ ctx_keys = {} /\ full_ctx = <<>> /\ ctxs = <<>>
    /\ ctx_pc = "idle"
    /\ sq_orig = NoTorch /\ sq_t = NoTorch /\ sq_calls = <<>>
    /\ sq_error = NoError
    /\ s_op = <<>> /\ s_given = <<>> /\ s_last = <<>>
    /\ f_mode = "" /\ f_cls = <<>> /\ f_patterns = {} /\ f_first = <<>>
    /\ f_list = <<>> /\ fpc = "idle"

\* copy_op_list, compute_pipeline.py lines 107-110: the whole list is
\* deep-copied in one call
PairCopyList ==
    /\ p_pc = "expanded"
    /\ LET c == deepcopy(p_heap, p_ops) IN
         /\ p_heap' = c.heap
         /\ p_ops' = c.ops
    /\ p_pc' = "copied"
    /\ UNCHANGED p_i
    /\ UNCHANGED notPair

\* the operation at index p_i is replaced by one of the variants its
\* describe_parallellism returns
PairReplace ==
    /\ p_pc \in {"expanded", "copied", "replacing"}
    /\ \E v \in PointwiseVariants :
          LET c == single_parallel(v, p_heap, p_ops[p_i]) IN
            /\ p_heap' = c.heap
            /\ p_ops' = [p_ops EXCEPT ![p_i] = c.op]
    /\ p_i' = p_i + 1
    /\ p_pc' = IF p_i = Len(p_ops) THEN "replaced" ELSE "replacing"
    /\ UNCHANGED notPair

NextPair ==
    \/ PairCopyList
    \/ PairReplace

\* C33: once the Residual is expanded, once the whole list is deep-copied
\* and once every operation of the list is replaced by a variant of its
\* own, the ResidualEnd of the list refers through begin to the
\* ResidualBegin of the list, and that ResidualBegin refers through end to
\* that ResidualEnd
C33_MarkersPaired ==
    p_pc \in {"expanded", "copied", "replaced"} =>
        \A i, j \in DOMAIN p_ops :
            (/\ p_heap[p_ops[i]].cls = "ResidualBegin"
             /\ p_heap[p_ops[j]].cls = "ResidualEnd") =>
                /\ p_heap[p_ops[j]].ref = p_ops[i]
                /\ p_heap[p_ops[i]].ref = p_ops[j]

(***************************************************************************)
(* One training call, forward and backward: where the exposed tensors and  *)
(* the gradients are squished and unsquished                               *)
(* (compute_pipeline_function.py, forward 74-151, backward 154-206, apply  *)
(* 209-251).  Units are numbered 0..n-1 as enumerate() does; unit u is at  *)
(* index u + 1 of a sequence.  Every tensor of the call has g_m elements.  *)
(***************************************************************************)
\* mutant: the next forward is never told that its input was squished
NeverSquishedNow(i, x, nx) == FALSE

\* apply, lines 219-234: the is_exposed_x_squished_now argument of unit i
is_exposed_x_squished_now(i, x, nx) ==
    IF i = 0 THEN FALSE ELSE x.dtype # nx.data.dtype

\* ComputePipelineFunction.forward of unit i, lines 79-151, and what apply
\* passes it: op.forward returns data of dtype d
forward_of(i, x, nx, d, m) ==
    LET y == OpForward(i, d, m)
        now == is_exposed_x_squished_now(i, x, nx)
        o == ExposeOutcome(get_exposed_y(x, y))
    IN  [is_exposed_x_squished_now |-> now,
         nvte_x |-> nx,
         nvte_y |-> y,
         exposed_y |-> o.t,
         squished |-> y.data.dtype = "int8" /\ o.error = NoError,
         nvte_squish_outgoing_dgrad |-> now,
         nvte_unsquish_incoming_dgrad |->
             y.data.dtype = "int8" /\ o.error = NoError,
         error |-> o.error]

\* what autograd hands to backward: a gradient of the dtype and the size
\* the exposed output has
GradOutputFor(u, ey) == TorchTensor(<<"grad_output", u>>, ey.dtype, ey.numel)

\* the tensor a relay slot holds once the backward that wrote it (line 192)
\* has squished exposed_dgrad = data_grad.data (lines 199-202): the tensor
\* op.backward returned.  nvte.Tensor keeps the dtype and the shape it was
\* built with (nvte/tensor.py lines 17-18)
SlotAfterSquish(data_grad, exposed_dgrad) == data_grad

\* no backward has run
NoBack ==
    [unit |-> 0 - 1, first |-> FALSE, nvte_grad |-> NoNvte,
     data_grad |-> NoNvte, wrote |-> FALSE, decided |-> FALSE,
     squish_called |-> FALSE, exposed_dgrad |-> NoTorch, slot |-> NoNvte,
     error |-> NoError]

\* ComputePipelineFunction.backward of unit u, lines 154-206: fw is what
\* its forward saved, slot the nvte_grad_output of its preceding_backward,
\* op.backward returns a data gradient of dtype d, and pfp8 says that one
\* of the parameter gradients is fp8
backward_of(u, fw, slot, d, pfp8) ==
    LET first == slot = NoNvte
        un == IF fw.nvte_unsquish_incoming_dgrad
              THEN _unsquish(GradOutputFor(u, fw.exposed_y))
              ELSE Outcome(GradOutputFor(u, fw.exposed_y), NoError)
        nvte_grad == IF first THEN make_nvte_tensor(un.t) ELSE slot
        data_grad ==
            make_nvte_tensor(TorchTensor(<<"dgrad", u>>, d, fw.nvte_x.data.numel))
        sq == IF fw.nvte_squish_outgoing_dgrad
              THEN _squish(data_grad.data)
              ELSE Outcome(data_grad.data, NoError)
        asserted == Raised("AssertionError", "")
    IN  IF first /\ un.error # NoError
        THEN [NoBack EXCEPT !.unit = u, !.first = first, !.error = un.error]
        ELSE IF u = 0 /\ is_fp8(d)
        THEN [NoBack EXCEPT !.unit = u, !.first = first,
                            !.nvte_grad = nvte_grad, !.data_grad = data_grad,
                            !.error = asserted]
        ELSE [unit |-> u, first |-> first, nvte_grad |-> nvte_grad,
              data_grad |-> data_grad, wrote |-> u # 0,
              decided |-> ~pfp8,
              squish_called |-> ~pfp8 /\ fw.nvte_squish_outgoing_dgrad,
              exposed_dgrad |-> IF pfp8 THEN NoTorch ELSE sq.t,
              slot |-> IF pfp8 THEN data_grad
                       ELSE SlotAfterSquish(data_grad, sq.t),
              error |-> IF pfp8 THEN asserted ELSE sq.error]

InitGrad ==
    /\ p_heap = <<>> /\ p_ops = <<>> /\ p_i = 0 /\ p_pc = "idle"
    /\ it_n = 0 /\ it_done = <<>>
    /\ g_n \in 1..MaxUnits
    /\ g_m \in 1..MaxNumel
    /\ \E d \in InDtypes : g_x = TorchTensor(<<"x", 0>>, d, g_m)
    /\ g_nvte_x = make_nvte_tensor(g_x)
    /\ g_fwd = <<>>
    /\ g_back = NoBack
    /\ g_slots = [u \in 1..g_n |-> NoNvte]
    /\ g_i = 0
    /\ gpc = "forward"
    \* nothing else runs
    /\ f_mode = "" /\ f_cls = <<>> /\ f_patterns = {} /\ f_first = <<>>
    /\ f_list = <<>> /\ fpc = "idle"
    /\ b_ops = <<>> /\ b_env = NoEnv
    /\ b_self = NoPipeline /\ bpc = "idle"
    /\ b_heap = <<>> /\ b_local = NoLocals /\ b_log = <<>>
    /\ pipeline = <<>> /\ memory = <<>> /\ gens = <<>> /\ infs = <<>>
    /\ prims = <<>> /\ threaded = <<0, "None">> /\ op_i = 0 /\ ppc = "idle"
    /\ fwds0 = <<>> /\ bwds0 = <<>> /\ fwds = <<>> /\ bwds = <<>>
    /\ functions = <<>> /\ used_forwards = <<>> /\ used_backwards = <<>>
    /\ unmatched_fwd_ops = {} /\ unmatched_bwd_ops = {}
    /\ forward = <<>> /\ backward = <<>> /\ pc = "returned"
    /\ calls = NoCalls /\ heap = <<>> /\ classGrad = None
    /\ _args = ArgsUnassigned
    /\ unit = NoUnit /\ params = <<>> /\ inputs = <<>> /\ todo_bwds = <<>>
    /\ dy = NoTensor /\ full_grads = <<>> /\ outputs = <<>> /\ upc = "idle"
    /\ apply_x = NoTorch /\ nvte_x = NoNvte /\ squished_now = FALSE
    /\ tensor_mess = <<>> /\ given = NoNvte /\ nvte_y = NoNvte
    /\ returned_prev = NoNvte /\ exposed_y = NoTorch /\ fctx = NoFlags
    /\ result = <<>> /\ n_units = 0 /\ loop_i = 0 /\ hpc = "idle"
    /\ ctx_unit = NoUnit /\ ctx_keys = {} /\ full_ctx = <<>> /\ ctxs = <<>>
    /\ ctx_pc = "idle"
    /\ sq_orig = NoTorch /\ sq_t = NoTorch /\ sq_calls = <<>>
    /\ sq_error = NoError
    /\ s_op = <<>> /\ s_given = <<>> /\ s_last = <<>>

\* apply, lines 217-251, for unit g_i: ComputePipelineFunction.apply runs
\* forward; the backwards run once the loop is through
GradForward ==
    /\ gpc = "forward"
    /\ \E d \in OutDtypes :
          LET r == forward_of(g_i, g_x, g_nvte_x, d, g_m) IN
            /\ g_fwd' = Append(g_fwd, r)
            /\ IF r.error # NoError
               THEN /\ gpc' = "raised"
                    /\ UNCHANGED <<g_x, g_nvte_x, g_i>>
               ELSE /\ g_x' = r.exposed_y
                    /\ g_nvte_x' = r.nvte_y
                    /\ g_i' = IF g_i + 1 = g_n THEN g_i ELSE g_i + 1
                    /\ gpc' = IF g_i + 1 = g_n THEN "backward" ELSE "forward"
    /\ UNCHANGED <<g_n, g_m, g_back, g_slots>>
    /\ UNCHANGED notGrad

\* ComputePipelineFunction.backward of unit g_i: autograd runs the
\* backwards from the last unit to unit 0
GradBackward ==
    /\ gpc = "backward"
    /\ \E d \in OutDtypes, pfp8 \in BOOLEAN :
          LET r == backward_of(g_i, g_fwd[g_i + 1], g_slots[g_i + 1], d, pfp8)
          IN  /\ g_back' = r
              /\ g_slots' = IF r.wrote THEN [g_slots EXCEPT ![g_i] = r.slot]
                            ELSE g_slots
              /\ gpc' = IF r.error # NoError THEN "raised"
                        ELSE IF g_i = 0 THEN "returned" ELSE "backward"
              /\ g_i' = IF r.error # NoError \/ g_i = 0 THEN g_i ELSE g_i - 1
    /\ UNCHANGED <<g_n, g_m, g_x, g_nvte_x, g_fwd>>
    /\ UNCHANGED notGrad

NextGrad ==
    \/ GradForward
    \/ GradBackward

C38_FailedBackwardWritesNoSlot ==
    [][(/\ gpc = "backward"
        /\ gpc' = "raised"
        /\ g_back'.nvte_grad # NoNvte
        /\ g_back'.error = Raised("AssertionError", ""))
          => g_slots' = g_slots]_vars

(***************************************************************************)
(* Specifications.                                                         *)
(***************************************************************************)
SpecSplit == InitSplit /\ [][NextSplit]_vars

\* the program keeps running until it returns or raises
SpecSplitFair == SpecSplit /\ WF_vars(NextSplit)

SpecTrain == InitTrain /\ [][NextTrain]_vars

SpecUnit == InitUnit /\ [][NextUnit]_vars

SpecHandoff == InitHandoff /\ [][NextHandoff]_vars

SpecCtx == InitCtx /\ [][NextCtx]_vars

SpecSquish == InitSquish /\ [][NextSquish]_vars

SpecOps == InitOps /\ [][NextOps]_vars

SpecBuild == InitBuild /\ [][NextBuild]_vars

SpecSetup == InitSetup /\ [][NextSetup]_vars

SpecFuse == InitFuse /\ [][NextFuse]_vars

SpecGrad == InitGrad /\ [][NextGrad]_vars

SpecIter == InitIter /\ [][NextIter]_vars

SpecPair == InitPair /\ [][NextPair]_vars

SpecShard == InitShard /\ [][NextShard]_vars

SpecThreads == InitThreads /\ [][NextThreads]_vars

====
